---- MODULE Spec2Model ----
(***************************************************************************)
(* Hydraflow: graph validation (validateGraph) and the chain builder of    *)
(* HydraEngine (executeGraph), modelled from the TypeScript sources.       *)
(*                                                                         *)
(* A graph is a list of nodes and a list of edges, as the editor store     *)
(* keeps them.  Node ids are 1..Len(nodes); GhostId is an id no node has   *)
(* (an edge whose source was never added).  Numbers that can be            *)
(* non-integers (a sink's outputIndex) are rationals [num, den].           *)
(***************************************************************************)
EXTENDS Integers, Sequences, FiniteSets, TLC

VARIABLES
    nodes,                  \* editor store: IRNode[]  (id, type, data)
    edges,                  \* editor store: IREdge[]  (id, source, target, targetHandle, isFeedback)
    vres,                   \* result of the last validateGraph call on (nodes, edges), or NoResult
    hydra,                  \* HydraEngine.hydra: 0 is null, k > 0 the k-th runtime created
    isInitialized,          \* HydraEngine.isInitialized
    isCameraInitialised,    \* HydraEngine.isCameraInitialised
    cameraInitError,        \* HydraEngine.cameraInitError, NoError is null
    xres,                   \* outcome of the last executeGraph call on (nodes, edges), or NoResult
    canvas,                 \* HydraEngine.canvas: 0 is null
    regl,                   \* HydraEngine.regl: 0 is null, k > 0 the context of the k-th init
    onResizeHandler,        \* HydraEngine.onResizeHandler is set and registered on window
    initPc,                 \* where the last init(canvas) call is: "none", "awaiting", "done", "failed"
    destroyedAt,            \* initPc when destroy() last ran since init was last called, or "never"
    created,                \* number of runtimes created so far
    initCamCalls,           \* the runtimes on whose source 0 initCam was invoked, in order
    mountPc,                \* HydraCanvas onMount: "none", "import", "init", "done", "failed"
    engine,                 \* HydraCanvas.engine is set
    canvasInitialized,      \* HydraCanvas.isInitialized ($state)
    debounceTimer,          \* HydraCanvas.debounceTimer: 0 is null, else the id of the last timer set
    timers,                 \* the timeouts set and neither fired nor cleared
    destroyed,              \* onDestroy of HydraCanvas has run
    now,                    \* time in ms
    events,                 \* graph changes seen by the canvas, engine.start and executeGraph calls, in order
    flowEdges               \* FlowEditor.edges (source, target, targetHandle, delayFrames)

graphVars == <<nodes, edges>>
cameraVars == <<isCameraInitialised, cameraInitError, initCamCalls>>
lifeVars == <<canvas, regl, onResizeHandler, initPc, destroyedAt, created>>
engineVars == <<hydra, isInitialized, cameraVars, lifeVars>>
canvasVars == <<mountPc, engine, canvasInitialized, debounceTimer, timers, destroyed, now, events>>
uiVars == <<canvasVars, flowEdges>>
vars == <<nodes, edges, vres, xres, engineVars, uiVars>>

----------------------------------------------------------------------------
(* Bounds of the model *)

MaxNodes == 3
MaxEdges == 3
MaxData == 1
MaxRuntimes == 2
MaxChanges == 3
MaxTicks == 4

(* Program constants *)

NumOutputs == 4
GhostId == 0

----------------------------------------------------------------------------
(* Values *)

Undefined == [num |-> 0, den |-> 0]
Num(n) == [num |-> n, den |-> 1]
Half == [num |-> 1, den |-> 2]

NoHandle == "none"
NoResult == [called |-> FALSE]

\* Number.isInteger
IsInteger(v) == v.den # 0 /\ v.num % v.den = 0

\* String(number) for the values the model draws (integers and k + 1/2)
NumStr(v) ==
    IF v.den = 1 THEN ToString(v.num)
    ELSE IF v.num % v.den = 0 THEN ToString(v.num \div v.den)
    ELSE ToString(v.num \div v.den) \o ".5"

----------------------------------------------------------------------------
(* Transform registry (TransformMeta) *)

KnownTypes == {"out", "osc", "rotate", "blend", "camera"}

kindByName(t) ==
    CASE t = "osc" -> "src"
      [] t = "camera" -> "src"
      [] t = "rotate" -> "coord"
      [] t = "blend" -> "combine"
      [] t = "out" -> "color"
      [] OTHER -> "unknown"

arityByName(t) ==
    CASE t = "osc" -> 0
      [] t = "camera" -> 0
      [] t = "rotate" -> 1
      [] t = "blend" -> 2
      [] t = "out" -> 1
      [] OTHER -> -1

paramIdsByName(t) ==
    CASE t = "osc" -> <<"frequency", "sync", "offset">>
      [] t = "rotate" -> <<"angle", "speed">>
      [] t = "blend" -> <<"amount">>
      [] OTHER -> <<>>

----------------------------------------------------------------------------
(* Helpers on sequences *)

Range(s) == {s[i] : i \in DOMAIN s}

----------------------------------------------------------------------------
(* Graph accessors *)

HasNode(ns, id) == \E i \in DOMAIN ns : ns[i].id = id
NodeOf(ns, id) == ns[CHOOSE i \in DOMAIN ns : ns[i].id = id]

\* incomingByNodeId.get(id) ?? []
Incoming(es, id) == LET P(e) == e.target = id IN SelectSeq(es, P)

\* nodes.filter(n => n.type === 'out')
OutputNodes(ns) == LET P(n) == n.type = "out" IN SelectSeq(ns, P)

\* node.data?.[key]
DataGet(n, key) ==
    IF \E i \in DOMAIN n.data : n.data[i].key = key
    THEN n.data[CHOOSE i \in DOMAIN n.data : n.data[i].key = key].val
    ELSE Undefined

\* Number(node.data?.outputIndex ?? 0)
OutputIndexOf(n) ==
    LET raw == DataGet(n, "outputIndex") IN IF raw = Undefined THEN Num(0) ELSE raw

\* a variant that ignores the edge's flag
isFeedbackEdge_never(e) == FALSE

isFeedbackEdge(e) == e.isFeedback = TRUE

----------------------------------------------------------------------------
(* Issues *)

RECURSIVE JoinParts(_)
JoinParts(parts) ==
    IF parts = <<>> THEN "" ELSE ":" \o Head(parts) \o JoinParts(Tail(parts))

\* [kind, ...parts.map(p => (p ?? '').toString())].join(':')
makeIssueKey(kind, parts) == kind \o JoinParts(parts)

NoNodeId == -1
NoEdgeId == 0

Issue(kind, severity, key, message, nodeId, outputIndex) ==
    [kind |-> kind, severity |-> severity, key |-> key, message |-> message,
     nodeId |-> nodeId, edgeId |-> NoEdgeId, outputIndex |-> outputIndex]

IdStr(id) == ToString(id)

\* a variant that returns its argument unchanged
dedupeIssues_none(all) == all

RECURSIVE dedupeFrom(_, _, _)
dedupeFrom(all, i, seen) ==
    IF i > Len(all) THEN <<>>
    ELSE IF all[i].key \in seen THEN dedupeFrom(all, i + 1, seen)
    ELSE <<all[i]>> \o dedupeFrom(all, i + 1, seen \cup {all[i].key})

dedupeIssues(all) == dedupeFrom(all, 1, {})

----------------------------------------------------------------------------
(* computeReachability: breadth-first, backward from the sinks *)

\* a variant that follows forward edges only
RECURSIVE scanIncoming_forwardOnly(_, _, _, _, _)
scanIncoming_forwardOnly(incoming, i, queue, reachableNodes, reachableEdges) ==
    IF i > Len(incoming)
    THEN [queue |-> queue, reachableNodes |-> reachableNodes, reachableEdges |-> reachableEdges]
    ELSE IF incoming[i].isFeedback
    THEN scanIncoming_forwardOnly(incoming, i + 1, queue, reachableNodes, reachableEdges)
    ELSE LET edge == incoming[i]
             fresh == edge.source \notin reachableNodes
         IN scanIncoming_forwardOnly(incoming, i + 1,
                IF fresh THEN Append(queue, edge.source) ELSE queue,
                IF fresh THEN reachableNodes \cup {edge.source} ELSE reachableNodes,
                reachableEdges \cup {edge.id})

RECURSIVE scanIncoming(_, _, _, _, _)
scanIncoming(incoming, i, queue, reachableNodes, reachableEdges) ==
    IF i > Len(incoming)
    THEN [queue |-> queue, reachableNodes |-> reachableNodes, reachableEdges |-> reachableEdges]
    ELSE LET edge == incoming[i]
             fresh == edge.source \notin reachableNodes
         IN scanIncoming(incoming, i + 1,
                IF fresh THEN Append(queue, edge.source) ELSE queue,
                IF fresh THEN reachableNodes \cup {edge.source} ELSE reachableNodes,
                reachableEdges \cup {edge.id})

RECURSIVE drainQueue(_, _, _, _)
drainQueue(es, queue, reachableNodes, reachableEdges) ==
    IF queue = <<>>
    THEN [reachableNodes |-> reachableNodes, reachableEdges |-> reachableEdges]
    ELSE LET r == scanIncoming(Incoming(es, Head(queue)), 1, Tail(queue),
                               reachableNodes, reachableEdges)
         IN drainQueue(es, r.queue, r.reachableNodes, r.reachableEdges)

computeReachability(ns, es) ==
    LET outs == OutputNodes(ns)
        ids == [i \in DOMAIN outs |-> outs[i].id]
    IN drainQueue(es, ids, Range(ids), {})

----------------------------------------------------------------------------
(* rebuildGraphValidationResult: per-node and per-edge status *)

HasSeverity(is, sev) == \E i \in DOMAIN is : is[i].severity = sev

nodeStatusOf(n, issues, reachableNodes) ==
    LET P(i) == i.nodeId = n.id
        nodeIssues == SelectSeq(issues, P)
    IN [hasError |-> HasSeverity(nodeIssues, "error"),
        hasWarning |-> HasSeverity(nodeIssues, "warning"),
        isDead |-> n.id \notin reachableNodes,
        issues |-> nodeIssues]

\* sourceStatus?.hasError and the like: false when the endpoint is no node
StatusFlag(nodeStatusById, id, flag) ==
    id \in DOMAIN nodeStatusById /\ nodeStatusById[id][flag]

\* a variant that derives an edge's flags from the edge's own issues only
edgeStatusOf_ownIssues(e, issues, nodeStatusById, reachableEdges) ==
    LET P(i) == i.edgeId = e.id
        edgeIssues == SelectSeq(issues, P)
    IN [hasError |-> HasSeverity(edgeIssues, "error"),
        hasWarning |-> ~HasSeverity(edgeIssues, "error") /\ HasSeverity(edgeIssues, "warning"),
        isDead |-> e.id \notin reachableEdges,
        issues |-> edgeIssues]

edgeStatusOf(e, issues, nodeStatusById, reachableEdges) ==
    LET P(i) == i.edgeId = e.id
        edgeIssues == SelectSeq(issues, P)
        hasError == \/ HasSeverity(edgeIssues, "error")
                    \/ StatusFlag(nodeStatusById, e.source, "hasError")
                    \/ StatusFlag(nodeStatusById, e.target, "hasError")
    IN [hasError |-> hasError,
        hasWarning |-> /\ ~hasError
                       /\ \/ HasSeverity(edgeIssues, "warning")
                          \/ StatusFlag(nodeStatusById, e.source, "hasWarning")
                          \/ StatusFlag(nodeStatusById, e.target, "hasWarning"),
        isDead |-> e.id \notin reachableEdges,
        issues |-> edgeIssues]

rebuildGraphValidationResult(ns, es, issues, reachableNodes, reachableEdges) ==
    LET nodeStatusById == [id \in {ns[i].id : i \in DOMAIN ns} |->
                              nodeStatusOf(NodeOf(ns, id), issues, reachableNodes)]
    IN [issues |-> issues,
        nodeStatusById |-> nodeStatusById,
        edgeStatusById |-> [id \in {es[i].id : i \in DOMAIN es} |->
                               edgeStatusOf(es[CHOOSE i \in DOMAIN es : es[i].id = id], issues,
                                            nodeStatusById, reachableEdges)],
        reachableNodes |-> reachableNodes,
        reachableEdges |-> reachableEdges]

----------------------------------------------------------------------------
(* validateGraph *)

\* a variant that accepts outputIndex = numOutputs
indexOutOfRange_inclusive(outputIndex) ==
    ~IsInteger(outputIndex) \/ outputIndex.num < 0
    \/ outputIndex.num > NumOutputs * outputIndex.den

\* !Number.isInteger(outputIndex) || outputIndex < 0 || outputIndex >= numOutputs
indexOutOfRange(outputIndex) ==
    ~IsInteger(outputIndex) \/ outputIndex.num < 0
    \/ outputIndex.num >= NumOutputs * outputIndex.den

\* the output-index check of one sink
rangeIssue(outNode) ==
    LET outputIndex == OutputIndexOf(outNode)
    IN IF indexOutOfRange(outputIndex)
       THEN <<Issue("OUTPUT_INDEX_OUT_OF_RANGE", "error",
                    makeIssueKey("OUTPUT_INDEX_OUT_OF_RANGE",
                                 <<IdStr(outNode.id), NumStr(outputIndex)>>),
                    "Output index " \o NumStr(outputIndex) \o " out of range (0..."
                        \o ToString(NumOutputs - 1) \o ")",
                    outNode.id, outputIndex)>>
       ELSE <<>>

\* a variant that reports a sink only when it has no input at all
arityIssue_noneOnly(outNode, es) ==
    LET inEdges == Incoming(es, outNode.id)
    IN IF Len(inEdges) = 0
       THEN <<Issue("OUTPUT_ARITY", "error",
                    makeIssueKey("OUTPUT_ARITY", <<IdStr(outNode.id)>>),
                    "Output expects exactly 1 input, found " \o ToString(Len(inEdges)),
                    outNode.id, OutputIndexOf(outNode))>>
       ELSE <<>>

\* the output-arity check of one sink
arityIssue(outNode, es) ==
    LET inEdges == Incoming(es, outNode.id)
    IN IF Len(inEdges) # 1
       THEN <<Issue("OUTPUT_ARITY", "error",
                    makeIssueKey("OUTPUT_ARITY", <<IdStr(outNode.id)>>),
                    "Output expects exactly 1 input, found " \o ToString(Len(inEdges)),
                    outNode.id, OutputIndexOf(outNode))>>
       ELSE <<>>

sinkIssues(outNode, es) == rangeIssue(outNode) \o arityIssue(outNode, es)

RECURSIVE allSinkIssues(_, _, _)
allSinkIssues(outs, es, i) ==
    IF i > Len(outs) THEN <<>>
    ELSE sinkIssues(outs[i], es) \o allSinkIssues(outs, es, i + 1)

\* a variant without the UI-only key of the sink
allowedKeys_declaredOnly(n) == Range(paramIdsByName(n.type))

\* allowedKeys of a node of known type
allowedKeys(n) ==
    Range(paramIdsByName(n.type)) \cup (IF n.type = "out" THEN {"outputIndex"} ELSE {})

RECURSIVE JoinComma(_)
JoinComma(keys) ==
    IF keys = <<>> THEN ""
    ELSE IF Len(keys) = 1 THEN keys[1]
    ELSE keys[1] \o ", " \o JoinComma(Tail(keys))

\* the keys a registry entry or an allowed UI key can be, in the order of
\* Array.prototype.sort (by UTF-16 code units)
SortedKeys == <<"amount", "angle", "frequency", "offset", "outputIndex", "speed", "sync">>

IsAllowed(keys, k) == k \in keys

\* Array.from(keys).sort()
sortKeys(keys) == SelectSeq(SortedKeys, LAMBDA k : IsAllowed(keys, k))

\* a variant that lists the keys in the order the set was filled
expectedList_insertionOrder(n) ==
    JoinComma(paramIdsByName(n.type) \o (IF n.type = "out" THEN <<"outputIndex">> ELSE <<>>))

\* Array.from(allowedKeys).sort().join(', ')
expectedList(n) == JoinComma(sortKeys(allowedKeys(n)))

RECURSIVE unknownKeyIssuesOf(_, _)
unknownKeyIssuesOf(n, i) ==
    IF i > Len(n.data) THEN <<>>
    ELSE (IF n.data[i].key \notin allowedKeys(n)
          THEN <<Issue("UNKNOWN_NODE_DATA_KEY", "warning",
                       makeIssueKey("UNKNOWN_NODE_DATA_KEY", <<IdStr(n.id), n.data[i].key>>),
                       "Node " \o IdStr(n.id) \o " has unknown parameter \"" \o n.data[i].key
                           \o "\" (expected: " \o expectedList(n) \o ")",
                       n.id, Undefined)>>
          ELSE <<>>) \o unknownKeyIssuesOf(n, i + 1)

\* the loop over all nodes that reports unknown node.data keys
unknownKeyNode(n) ==
    IF kindByName(n.type) = "unknown" THEN <<>> ELSE unknownKeyIssuesOf(n, 1)

RECURSIVE unknownKeyIssues(_, _)
unknownKeyIssues(ns, i) ==
    IF i > Len(ns) THEN <<>>
    ELSE unknownKeyNode(ns[i]) \o unknownKeyIssues(ns, i + 1)

\* a variant that counts forward edges only
validateNodeInputArity_forwardOnly(node, inputEdges) ==
    LET NF(e) == ~e.isFeedback
        want == arityByName(node.type)
        have == Len(SelectSeq(inputEdges, NF))
        issueKind == IF have < want THEN "NODE_MISSING_INPUTS" ELSE "NODE_EXTRA_INPUTS"
    IN IF want = -1 \/ have = want THEN <<>>
       ELSE <<Issue(issueKind, IF have < want THEN "error" ELSE "warning",
                    makeIssueKey(issueKind,
                                 <<IdStr(node.id), node.type, ToString(want), ToString(have)>>),
                    node.type \o " expects " \o ToString(want) \o " input(s), found "
                        \o ToString(have),
                    node.id, Undefined)>>

validateNodeInputArity(node, inputEdges) ==
    LET want == arityByName(node.type)
        have == Len(inputEdges)
        issueKind == IF have < want THEN "NODE_MISSING_INPUTS" ELSE "NODE_EXTRA_INPUTS"
    IN IF want = -1 \/ have = want THEN <<>>
       ELSE <<Issue(issueKind, IF have < want THEN "error" ELSE "warning",
                    makeIssueKey(issueKind,
                                 <<IdStr(node.id), node.type, ToString(want), ToString(have)>>),
                    node.type \o " expects " \o ToString(want) \o " input(s), found "
                        \o ToString(have),
                    node.id, Undefined)>>

HandleOf(e) == IF e.targetHandle = NoHandle THEN "input-0" ELSE e.targetHandle

\* [...inputEdges].sort by (targetHandle ?? 'input-0'), a stable sort
sortByHandle(inputEdges) ==
    LET P0(e) == HandleOf(e) = "input-0"
        P1(e) == HandleOf(e) = "input-1"
    IN SelectSeq(inputEdges, P0) \o SelectSeq(inputEdges, P1)

Fail(issues) == [ok |-> FALSE, issues |-> issues]
Ok == [ok |-> TRUE, issues |-> <<>>]

\* a variant that recurses into the inputs of two-input nodes only
recursedInputs_skipUnary(tType, inputEdges) ==
    LET NF(e) == ~e.isFeedback
    IN IF tType \in {"combine", "combineCoord"}
       THEN LET nf == SelectSeq(sortByHandle(inputEdges), NF)
            IN SubSeq(nf, 1, IF Len(nf) < 2 THEN Len(nf) ELSE 2)
       ELSE <<>>

\* recursed: the input edges validateNodeChain recurses into, in order
recursedInputs(tType, inputEdges) ==
    LET NF(e) == ~isFeedbackEdge(e)
    IN IF tType \in {"coord", "color"} THEN SelectSeq(inputEdges, NF)
       ELSE IF tType \in {"combine", "combineCoord"}
       THEN LET nf == SelectSeq(sortByHandle(inputEdges), NF)
            IN SubSeq(nf, 1, IF Len(nf) < 2 THEN Len(nf) ELSE 2)
       ELSE <<>>

RECURSIVE validateNodeChain(_, _, _, _)
RECURSIVE validateInputs(_, _, _, _, _, _)

\* The stack of a traversal is kept as the list of the calls in progress, the
\* innermost last: the set the code passes down is its range.  A traversal
\* nested deeper than CallStackLimit ends as the JavaScript engine ends it, with
\* a RangeError; no graph of the model has that many distinct node ids.
CallStackLimit == MaxNodes + 2

RangeError == "RangeError"

\* a variant that never finds the node on the stack
onStack_never(nodeId, stack) == FALSE

\* stack.has(nodeId)
onStack(nodeId, stack) == nodeId \in Range(stack)

\* the end of validateNodeChain: the node's result is memoized and returned
nodeValidated(nodeId, allIssues, memo) ==
    [ok |-> allIssues = <<>>, issues |-> allIssues,
     memo |-> (nodeId :> (IF allIssues = <<>> THEN Ok ELSE Fail(allIssues))) @@ memo]

\* validateNodeChain once the recursion over the inputs has returned
inputsValidated(nodeId, arityIssues, children) ==
    nodeValidated(nodeId, arityIssues \o children.issues, children.memo)

\* a variant that recurses into the inputs of a node with missing inputs too
validateKnownNode_recurseAlways(G, node, tType, inputEdges, stack, memo) ==
    inputsValidated(node.id, validateNodeInputArity(node, inputEdges),
                    validateInputs(G, recursedInputs(tType, inputEdges), 1,
                                   Append(stack, node.id), memo, <<>>))

\* validateNodeChain of a live node of known kind tType with its incoming edges
validateKnownNode(G, node, tType, inputEdges, stack, memo) ==
    IF arityByName(node.type) # -1 /\ Len(inputEdges) < arityByName(node.type)
    THEN nodeValidated(node.id, validateNodeInputArity(node, inputEdges), memo)
    ELSE inputsValidated(node.id, validateNodeInputArity(node, inputEdges),
                         validateInputs(G, recursedInputs(tType, inputEdges), 1,
                                        Append(stack, node.id), memo, <<>>))

\* G = [nodes, edges, reachableNodes]; memo is buildMemo, threaded through the calls
validateNodeChain(G, nodeId, stack, memo) ==
    IF Len(stack) > CallStackLimit
    THEN [ok |-> FALSE,
          issues |-> <<Issue(RangeError, "error", RangeError, "Maximum call stack size exceeded",
                             nodeId, Undefined)>>,
          memo |-> memo]
    ELSE IF onStack(nodeId, stack)
    THEN [ok |-> FALSE,
          issues |-> <<Issue("CYCLE", "error", makeIssueKey("CYCLE", <<IdStr(nodeId)>>),
                             "Same-frame cycle detected involving node " \o IdStr(nodeId)
                                 \o " (feedback edges break cycles)",
                             nodeId, Undefined)>>,
          memo |-> memo]
    ELSE IF nodeId \in DOMAIN memo
    THEN [ok |-> memo[nodeId].ok, issues |-> memo[nodeId].issues, memo |-> memo]
    ELSE IF ~HasNode(G.nodes, nodeId)
    THEN nodeValidated(nodeId, <<Issue("NODE_NOT_FOUND", "error",
                                       makeIssueKey("NODE_NOT_FOUND", <<IdStr(nodeId)>>),
                                       "Node " \o IdStr(nodeId) \o " not found",
                                       nodeId, Undefined)>>, memo)
    ELSE IF nodeId \notin G.reachableNodes
    THEN nodeValidated(nodeId, <<>>, memo)
    ELSE IF kindByName(NodeOf(G.nodes, nodeId).type) = "unknown"
    THEN nodeValidated(nodeId, <<Issue("UNKNOWN_TRANSFORM", "error",
                                       makeIssueKey("UNKNOWN_TRANSFORM",
                                                    <<IdStr(nodeId), NodeOf(G.nodes, nodeId).type>>),
                                       "Unknown transform \"" \o NodeOf(G.nodes, nodeId).type \o "\"",
                                       nodeId, Undefined)>>, memo)
    ELSE validateKnownNode(G, NodeOf(G.nodes, nodeId), kindByName(NodeOf(G.nodes, nodeId).type),
                           Incoming(G.edges, nodeId), stack, memo)

\* the loop body's end: the issues of a failed input are kept
inputValidated(childIssues, res) ==
    IF res.ok THEN childIssues ELSE childIssues \o res.issues

\* one step of the loop over the inputs, res being the input's result
nextInput(G, inputs, i, stack, childIssues, res) ==
    validateInputs(G, inputs, i + 1, stack, res.memo, inputValidated(childIssues, res))

validateInputs(G, inputs, i, stack, memo, childIssues) ==
    IF i > Len(inputs) THEN [issues |-> childIssues, memo |-> memo]
    ELSE nextInput(G, inputs, i, stack, childIssues,
                   validateNodeChain(G, inputs[i].source, stack, memo))

\* what the sink loop has gathered after the sink sinkId, res being the result for its input
sinkValidated(acc, sinkId, res) ==
    [issues |-> IF res.ok THEN acc.issues ELSE acc.issues \o res.issues,
     memo |-> res.memo, roots |-> acc.roots \cup {sinkId}]

\* a variant that leaves the loop at the first sink without exactly one input
RECURSIVE sinkLoop_stopAtBad(_, _, _, _)
sinkLoop_stopAtBad(G, outs, i, acc) ==
    IF i > Len(outs) THEN acc
    ELSE IF Len(Incoming(G.edges, outs[i].id)) # 1 THEN acc
    ELSE sinkLoop_stopAtBad(G, outs, i + 1,
                            sinkValidated(acc, outs[i].id,
                                          validateNodeChain(G, Incoming(G.edges, outs[i].id)[1].source,
                                                            <<>>, acc.memo)))

\* the loop over the sinks that starts validateNodeChain at each sink's input;
\* acc = [issues, memo, roots], roots being the sinks it started from
RECURSIVE sinkLoop(_, _, _, _)
sinkLoop(G, outs, i, acc) ==
    IF i > Len(outs) THEN acc
    ELSE IF Len(Incoming(G.edges, outs[i].id)) # 1 THEN sinkLoop(G, outs, i + 1, acc)
    ELSE sinkLoop(G, outs, i + 1,
                  sinkValidated(acc, outs[i].id,
                                validateNodeChain(G, Incoming(G.edges, outs[i].id)[1].source,
                                                  <<>>, acc.memo)))

\* the end of validateGraph before the statuses: issues deduplicated
issuesValidated(reach, walk) ==
    [issues |-> dedupeIssues(walk.issues),
     reachableNodes |-> reach.reachableNodes, reachableEdges |-> reach.reachableEdges,
     buildMemo |-> walk.memo, roots |-> walk.roots, allIssues |-> walk.issues]

\* validateGraph after computeReachability, its traversal starting from buildMemo
validateFrom(ns, es, reach, buildMemo) ==
    issuesValidated(reach,
        sinkLoop([nodes |-> ns, edges |-> es, reachableNodes |-> reach.reachableNodes],
                 OutputNodes(ns), 1,
                 [issues |-> allSinkIssues(OutputNodes(ns), es, 1) \o unknownKeyIssues(ns, 1),
                  memo |-> buildMemo, roots |-> {}]))

\* a variant whose memo outlives the call: the next call starts from what the
\* last one left
newBuildMemo_kept == IF vres.called THEN vres.buildMemo ELSE <<>>

\* const buildMemo = new Map(), local to the call
newBuildMemo == <<>>

validateReached(ns, es, reach) == validateFrom(ns, es, reach, newBuildMemo)

\* validateGraph up to its last line: the deduplicated issues and the reachable
\* sets, with the traversal's final buildMemo, the sinks it started from and
\* allIssues as the passes produced them
validateIssues(ns, es) == validateReached(ns, es, computeReachability(ns, es))

\* the last line of validateGraph
graphValidated(ns, es, v) ==
    rebuildGraphValidationResult(ns, es, v.issues, v.reachableNodes, v.reachableEdges)
    @@ [called |-> TRUE, buildMemo |-> v.buildMemo, roots |-> v.roots]

validateGraph(ns, es) == graphValidated(ns, es, validateIssues(ns, es))

----------------------------------------------------------------------------
(* HydraEngine: the chain builder *)

\* inputsByName of the engine's registry: the runtime's formals, a mixer's first
\* formal being the implicit chain
inputsByName(t) ==
    CASE t = "osc" -> <<"frequency", "sync", "offset">>
      [] t = "rotate" -> <<"angle", "speed">>
      [] t = "blend" -> <<"color", "amount">>
      [] OTHER -> <<>>

NoChain == [op |-> "none"]
NoFault == [kind |-> "none", fn |-> "none"]
NoError == ""

\* a chain is the term of the calls that built it
Chain(op, base, other, arg, params) ==
    [op |-> op, base |-> base, other |-> other, arg |-> arg, params |-> params]

NoArg == [kind |-> "none", index |-> Undefined]
OutputArg(outputIndex) == [kind |-> "output", index |-> outputIndex]
SourceArg(i) == [kind |-> "source", index |-> Num(i)]

CAMERA_SOURCE_INDEX == 0

\* calling fn raises an exception: it throws, or it is not a function
Throws(env, fn) == env.kind \in {"throws", "missing"} /\ env.fn = fn
\* typeof fn !== 'function'
Missing(env, fn) == env.kind = "missing" /\ env.fn = fn

RECURSIVE trimUndefTail(_)
trimUndefTail(xs) ==
    IF xs # <<>> /\ xs[Len(xs)] = Undefined THEN trimUndefTail(SubSeq(xs, 1, Len(xs) - 1))
    ELSE xs

\* a variant that keeps the first formal of a mixer
paramNames_all(node) == inputsByName(node.type)

\* paramNames and callArgs of a node
paramNames(node) ==
    LET allNames == inputsByName(node.type)
    IN IF kindByName(node.type) \in {"combine", "combineCoord"} THEN Tail(allNames) ELSE allNames

callArgs(node) ==
    LET names == paramNames(node)
    IN trimUndefTail([i \in DOMAIN names |-> DataGet(node, names[i])])

RuntimeIssue(parts, message, nodeId, outputIndex) ==
    Issue("RUNTIME_EXECUTION_ERROR", "error", makeIssueKey("RUNTIME_EXECUTION_ERROR", parts),
          message, nodeId, outputIndex)

Logged(st, fn, nodeId, outputIndex, chain) ==
    [st EXCEPT !.calls = Append(@, [fn |-> fn, node |-> nodeId, outputIndex |-> outputIndex,
                                    chain |-> chain])]

Thrown(st, fn) == [ok |-> FALSE, chain |-> NoChain, issues |-> <<>>,
                   st |-> [st EXCEPT !.threw = TRUE, !.thrownBy = fn]]

Built(chain, st) == [ok |-> TRUE, chain |-> chain, issues |-> <<>>, st |-> st]
Failed(issues, st) == [ok |-> FALSE, chain |-> NoChain, issues |-> issues, st |-> st]

Memo(nodeId, r) ==
    [r EXCEPT !.st.memo = (nodeId :> [ok |-> r.ok, chain |-> r.chain, issues |-> r.issues]) @@ @]

\* outputs?.[outputIndex]
HasOutput(outputIndex) ==
    IsInteger(outputIndex) /\ outputIndex.num >= 0 /\ outputIndex.num < NumOutputs * outputIndex.den

buildFeedbackChainForOutput(E, outputIndex, nodeIdForErrors, st) ==
    LET parts == <<IdStr(nodeIdForErrors), NumStr(outputIndex)>>
    IN IF E.hydra = 0
       THEN Failed(<<RuntimeIssue(parts, "Hydra is not initialised; cannot build feedback chain",
                                  nodeIdForErrors, outputIndex)>>, st)
       ELSE IF ~HasOutput(outputIndex)
       THEN Failed(<<RuntimeIssue(parts, "Output " \o NumStr(outputIndex)
                                         \o " not available for feedback",
                                  nodeIdForErrors, outputIndex)>>, st)
       ELSE IF Missing(E.env, "src")
       THEN Failed(<<RuntimeIssue(parts, "Hydra \"src\" generator is not available for feedback",
                                  nodeIdForErrors, outputIndex)>>, st)
       ELSE IF Throws(E.env, "src")
       THEN Failed(<<RuntimeIssue(parts, "src threw", nodeIdForErrors, outputIndex)>>,
                   Logged(st, "src", nodeIdForErrors, outputIndex, NoChain))
       ELSE LET chain == Chain("src", NoChain, NoChain, OutputArg(outputIndex), <<>>)
            IN Built(chain, Logged(st, "src", nodeIdForErrors, outputIndex, chain))

\* a variant that attempts the initialisation whatever the camera fields say
initCameraSource_retry(E, nodeId, outputIndex, st) ==
    IF E.hydra = 0 THEN st
    ELSE IF Missing(E.env, "initCam")
    THEN [st EXCEPT !.cam = TRUE, !.camErr = "Hydra camera source not available"]
    ELSE IF Throws(E.env, "initCam")
    THEN [Logged(st, "initCam", nodeId, outputIndex, NoChain)
              EXCEPT !.cam = TRUE, !.camErr = "initCam threw"]
    ELSE [Logged(st, "initCam", nodeId, outputIndex, NoChain) EXCEPT !.cam = TRUE]

\* initCameraSource, on the threaded engine fields cam (isCameraInitialised) and camErr
initCameraSource(E, nodeId, outputIndex, st) ==
    IF st.cam \/ st.camErr # NoError \/ E.hydra = 0 THEN st
    ELSE LET st1 == [st EXCEPT !.cam = TRUE]
         IN IF Missing(E.env, "initCam")
            THEN [st1 EXCEPT !.camErr = "Hydra camera source not available"]
            ELSE IF Throws(E.env, "initCam")
            THEN [Logged(st1, "initCam", nodeId, outputIndex, NoChain)
                      EXCEPT !.camErr = "initCam threw"]
            ELSE Logged(st1, "initCam", nodeId, outputIndex, NoChain)

\* getEdgeForInputIndex: the first incoming edge on the slot, or none
EdgesOnSlot(inputEdges, index) ==
    LET P(e) == HandleOf(e) = "input-" \o ToString(index) IN SelectSeq(inputEdges, P)

RECURSIVE buildChainValidated(_, _, _, _, _, _)

\* a variant that never takes the forward input
hasForwardInput_never(forwardInputs) == FALSE

\* forwardInputs.length > 0 of the unary branch
hasForwardInput(forwardInputs) == forwardInputs # <<>>

\* buildInputChain of the binary branch
buildInputChain(E, G, node, edge, outputIndex, stack, st) ==
    IF isFeedbackEdge(edge) THEN buildFeedbackChainForOutput(E, outputIndex, node.id, st)
    ELSE buildChainValidated(E, G, edge.source, outputIndex, Append(stack, node.id), st)

\* the camera branch once initCameraSource has run (st1 holds the camera fields)
cameraChain(E, node, outputIndex, st1) ==
    IF st1.camErr # NoError
    THEN Memo(node.id, Failed(<<RuntimeIssue(<<IdStr(node.id)>>, st1.camErr,
                                             node.id, Undefined)>>, st1))
    ELSE IF Missing(E.env, "src")
    THEN Memo(node.id, Built(Chain("solid", NoChain, NoChain, NoArg,
                                   <<Num(0), Num(0), Num(0), Num(1)>>),
                             Logged(st1, "solid", node.id, outputIndex,
                                    Chain("solid", NoChain, NoChain, NoArg,
                                          <<Num(0), Num(0), Num(0), Num(1)>>))))
    ELSE IF Throws(E.env, "src")
    THEN Thrown(Logged(st1, "src", node.id, outputIndex, NoChain), "src")
    ELSE Memo(node.id, Built(Chain("src", NoChain, NoChain, SourceArg(CAMERA_SOURCE_INDEX), <<>>),
                             Logged(st1, "src", node.id, outputIndex,
                                    Chain("src", NoChain, NoChain,
                                          SourceArg(CAMERA_SOURCE_INDEX), <<>>))))

\* the call node.type(...callArgs) on the chains built for the node's inputs;
\* other is NoChain for a unary node
applyTransform(E, node, outputIndex, base, other, st) ==
    IF Throws(E.env, node.type)
    THEN Thrown(IF Missing(E.env, node.type) THEN st
                ELSE Logged(st, node.type, node.id, outputIndex, NoChain), node.type)
    ELSE Memo(node.id, Built(Chain(node.type, base, other, NoArg, callArgs(node)),
                             Logged(st, node.type, node.id, outputIndex,
                                    Chain(node.type, base, other, NoArg, callArgs(node)))))

\* the unary branch once the base chain is built
applyUnary(E, node, outputIndex, base) ==
    IF base.st.threw THEN base
    ELSE IF ~base.ok THEN Memo(node.id, Failed(base.issues, base.st))
    ELSE applyTransform(E, node, outputIndex, base.chain, NoChain, base.st)

\* the binary branch once both input chains are built
applyBinary(E, node, outputIndex, aResult, bResult) ==
    IF bResult.st.threw THEN bResult
    ELSE IF ~aResult.ok \/ ~bResult.ok
    THEN Memo(node.id, Failed((IF aResult.ok THEN <<>> ELSE aResult.issues)
                              \o (IF bResult.ok THEN <<>> ELSE bResult.issues), bResult.st))
    ELSE applyTransform(E, node, outputIndex, aResult.chain, bResult.chain, bResult.st)

\* the second input of the binary branch, built after the first
buildSecondInput(E, G, node, edge, outputIndex, stack, aResult) ==
    IF aResult.st.threw THEN aResult
    ELSE applyBinary(E, node, outputIndex, aResult,
                     buildInputChain(E, G, node, edge, outputIndex, stack, aResult.st))

\* E = [hydra, env]; G = [nodes, edges]; st threads memo, the runtime calls made,
\* the camera fields and a raised exception
buildChainValidated(E, G, nodeId, outputIndex, stack, st) ==
    IF Len(stack) > CallStackLimit
    THEN Thrown(st, RangeError)
    ELSE IF nodeId \in Range(stack)
    THEN Failed(<<Issue("CYCLE", "error", makeIssueKey("CYCLE", <<IdStr(nodeId)>>),
                        "Same-frame cycle detected involving node " \o IdStr(nodeId)
                            \o " (feedback edges break cycles)",
                        nodeId, Undefined)>>, st)
    ELSE IF nodeId \in DOMAIN st.memo
    THEN [ok |-> st.memo[nodeId].ok, chain |-> st.memo[nodeId].chain,
          issues |-> st.memo[nodeId].issues, st |-> st]
    ELSE IF ~HasNode(G.nodes, nodeId)
    THEN Memo(nodeId, Failed(<<Issue("NODE_NOT_FOUND", "error",
                                     makeIssueKey("NODE_NOT_FOUND", <<IdStr(nodeId)>>),
                                     "Node " \o IdStr(nodeId) \o " not found",
                                     nodeId, Undefined)>>, st))
    ELSE
    LET node == NodeOf(G.nodes, nodeId)
        tType == kindByName(node.type)
        inputEdges == Incoming(G.edges, nodeId)
        NF(e) == ~isFeedbackEdge(e)
        FB(e) == isFeedbackEdge(e)
        forwardInputs == SelectSeq(inputEdges, NF)
        feedbackInputs == SelectSeq(inputEdges, FB)
    IN
    IF node.type = "camera"
    THEN IF E.hydra = 0
         THEN Memo(nodeId, Failed(<<RuntimeIssue(<<IdStr(node.id)>>,
                                      "Hydra is not initialised; cannot use camera source",
                                      node.id, Undefined)>>, st))
         ELSE cameraChain(E, node, outputIndex, initCameraSource(E, node.id, outputIndex, st))
    ELSE IF tType = "unknown"
    THEN Memo(nodeId, Failed(<<Issue("UNKNOWN_TRANSFORM", "error",
                                     makeIssueKey("UNKNOWN_TRANSFORM", <<IdStr(node.id), node.type>>),
                                     "Unknown transform \"" \o node.type \o "\"",
                                     node.id, Undefined)>>, st))
    ELSE IF tType = "src"
    THEN applyTransform(E, node, outputIndex, NoChain, NoChain, st)
    ELSE IF tType \in {"coord", "color"}
    THEN IF forwardInputs = <<>> /\ feedbackInputs = <<>>
         THEN Memo(nodeId, Failed(<<RuntimeIssue(<<IdStr(node.id), NumStr(outputIndex)>>,
                                       node.type \o " has no input at runtime (expected 1, found 0)",
                                       node.id, outputIndex)>>, st))
         ELSE applyUnary(E, node, outputIndex,
                         IF hasForwardInput(forwardInputs)
                         THEN buildChainValidated(E, G, forwardInputs[1].source, outputIndex,
                                                  Append(stack, nodeId), st)
                         ELSE buildFeedbackChainForOutput(E, outputIndex, node.id, st))
    ELSE
    \* combine, combineCoord
    LET on0 == EdgesOnSlot(inputEdges, 0)
        on1 == EdgesOnSlot(inputEdges, 1)
    IN IF on0 = <<>> \/ on1 = <<>>
       THEN Memo(nodeId, Failed(<<RuntimeIssue(<<IdStr(node.id), NumStr(outputIndex)>>,
                                     node.type \o " expects 2 inputs at runtime, found "
                                         \o ToString((IF on0 = <<>> THEN 0 ELSE 1)
                                                     + (IF on1 = <<>> THEN 0 ELSE 1)),
                                     node.id, outputIndex)>>, st))
       ELSE buildSecondInput(E, G, node, on1[1], outputIndex, stack,
                             buildInputChain(E, G, node, on0[1], outputIndex, stack, st))

\* a variant that keeps the memo of the sink built before
freshMemo_kept(st) == st

\* memo = new Map(): the default of a call that passes no memo
freshMemo(st) == [st EXCEPT !.memo = <<>>]

\* the end of buildAndExecuteChain: attaches the built chain with .out
attachChain(E, nodeId, outputIndex, result) ==
    IF result.st.threw \/ ~result.ok THEN result
    ELSE IF E.hydra = 0
    THEN Failed(<<RuntimeIssue(<<IdStr(nodeId), NumStr(outputIndex)>>,
                               "Hydra is not initialised", nodeId, outputIndex)>>, result.st)
    ELSE IF Throws(E.env, "out")
    THEN Failed(<<RuntimeIssue(<<IdStr(nodeId), NumStr(outputIndex)>>,
                               "out threw", nodeId, outputIndex)>>,
                IF Missing(E.env, "out") THEN result.st
                ELSE Logged(result.st, "out", nodeId, outputIndex, NoChain))
    ELSE Built(result.chain,
               [Logged(result.st, "out", nodeId, outputIndex, result.chain)
                   EXCEPT !.attached = Append(@, [outputIndex |-> outputIndex,
                                                  chain |-> result.chain])])

\* builds the chain of one sink with a fresh memo, then attaches it
buildAndExecuteChain(E, G, nodeId, outputIndex, st) ==
    attachChain(E, nodeId, outputIndex,
                buildChainValidated(E, G, nodeId, outputIndex, <<>>, freshMemo(st)))

\* the loop body's end: the issues of a sink that failed are kept
sinkCompiled(acc, sinkId, result) ==
    [issues |-> IF result.ok THEN acc.issues ELSE acc.issues \o result.issues,
     st |-> [result.st EXCEPT !.compiled = @ \cup {sinkId}]]

\* the loop of executeGraph over the sinks; acc = [issues, st]
RECURSIVE compileSinks(_, _, _, _, _)
compileSinks(E, G, outs, i, acc) ==
    IF i > Len(outs) \/ acc.st.threw THEN acc
    ELSE IF Len(Incoming(G.edges, outs[i].id)) # 1 THEN compileSinks(E, G, outs, i + 1, acc)
    ELSE compileSinks(E, G, outs, i + 1,
                      sinkCompiled(acc, outs[i].id,
                                   buildAndExecuteChain(E, G, Incoming(G.edges, outs[i].id)[1].source,
                                                        OutputIndexOf(outs[i]), acc.st)))

\* a variant that never sees a structural error
hasStructuralErrors_never(structuralIssues) == FALSE

hasStructuralErrors(structuralIssues) ==
    \E i \in DOMAIN structuralIssues : structuralIssues[i].severity = "error"

\* the state a call starts from: nothing built, the engine's camera fields
startState(eng) ==
    [memo |-> <<>>, calls |-> <<>>, attached |-> <<>>, compiled |-> {},
     cam |-> eng.isCameraInitialised, camErr |-> eng.cameraInitError,
     threw |-> FALSE, thrownBy |-> "none"]

\* the end of executeGraph: the issues merged and the statuses rebuilt
executeResult(baseValidation, eng, env, ns, es, run) ==
    rebuildGraphValidationResult(ns, es, dedupeIssues(baseValidation.issues \o run.issues),
                                 baseValidation.reachableNodes, baseValidation.reachableEdges)
    @@ [called |-> TRUE, threw |-> run.st.threw, thrownBy |-> run.st.thrownBy,
        structural |-> baseValidation.issues, calls |-> run.st.calls,
        attached |-> run.st.attached, compiled |-> run.st.compiled,
        cam |-> run.st.cam, camErr |-> run.st.camErr, env |-> env, eng |-> eng,
        roots |-> baseValidation.roots, structuralAll |-> baseValidation.allIssues,
        allIssues |-> baseValidation.issues \o run.issues]

executeGraphFrom(baseValidation, eng, env, ns, es) ==
    executeResult(baseValidation, eng, env, ns, es,
        IF eng.hydra = 0 \/ ~eng.isInitialized THEN [issues |-> <<>>, st |-> startState(eng)]
        ELSE IF ~hasStructuralErrors(baseValidation.issues)
        THEN compileSinks([hydra |-> eng.hydra, env |-> env], [nodes |-> ns, edges |-> es],
                          OutputNodes(ns), 1, [issues |-> <<>>, st |-> startState(eng)])
        ELSE [issues |-> <<>>, st |-> startState(eng)])

executeGraph(eng, env, ns, es) ==
    executeGraphFrom(validateIssues(ns, es), eng, env, ns, es)

----------------------------------------------------------------------------
(* The editor store and the inputs the model draws *)

NodeTypes == <<"out", "osc", "camera", "rotate", "blend", "bogus">>

TypeRank(t) == CHOOSE i \in DOMAIN NodeTypes : NodeTypes[i] = t

Handles == {NoHandle, "input-1"}

IndexValues == {Num(-1), Num(1), Half, Num(NumOutputs), Num(NumOutputs + 1)}

Entry(k, v) == <<[key |-> k, val |-> v]>>

\* node.data of a new node: empty, one key the type may not declare, or a sink's outputIndex
DataOptions(t) ==
    {<<>>, Entry("angle", Num(1))}
    \cup (IF t = "out" THEN {Entry("outputIndex", v) : v \in IndexValues}
          ELSE {Entry("outputIndex", Num(1))})

\* the types and data the engine is run on
EngineTypes == {"out", "osc", "camera", "rotate", "blend"}
EngineData(t) ==
    {<<>>} \cup (IF t = "out" THEN {Entry("outputIndex", Num(1)), Entry("outputIndex", Num(NumOutputs))}
                 ELSE {})

\* node.data with one parameter set: a key out does not declare, a parameter of
\* osc after its first, and the parameter of rotate and of blend
ParamData(t) ==
    EngineData(t)
    \cup (CASE t = "out" -> {Entry("angle", Num(1))}
           [] t = "osc" -> {Entry("sync", Num(1))}
           [] t = "rotate" -> {Entry("angle", Num(1))}
           [] t = "blend" -> {Entry("amount", Half)}
           [] OTHER -> {})

NodeIds == {nodes[i].id : i \in DOMAIN nodes}

WithData == {i \in DOMAIN nodes : nodes[i].data # <<>>}

HasGhost == \E i \in DOMAIN edges : edges[i].source = GhostId


Init ==
    /\ nodes = <<>>
    /\ edges = <<>>
    /\ vres = NoResult
    /\ hydra = 0
    /\ isInitialized = FALSE
    /\ isCameraInitialised = FALSE
    /\ cameraInitError = NoError
    /\ xres = NoResult
    /\ canvas = 0
    /\ regl = 0
    /\ onResizeHandler = FALSE
    /\ initPc = "none"
    /\ destroyedAt = "never"
    /\ created = 0
    /\ initCamCalls = <<>>
    /\ mountPc = "none"
    /\ engine = FALSE
    /\ canvasInitialized = FALSE
    /\ debounceTimer = 0
    /\ timers = {}
    /\ destroyed = FALSE
    /\ now = 0
    /\ events = <<>>
    /\ flowEdges = <<>>

\* xres is the result of the last executeGraph call while the graph it was given
\* is still the store's graph; an edit of the graph clears it.
\* addNode: nodes are listed sinks first, then by type (the validator and the
\* builder read nodes by id and by type only); a missing node counts as a node
addNode(t, d) ==
    /\ Len(nodes) + (IF HasGhost THEN 1 ELSE 0) < MaxNodes
    /\ nodes = <<>> => t = "out"
    /\ nodes # <<>> => TypeRank(nodes[Len(nodes)].type) <= TypeRank(t)
    /\ d # <<>> => Cardinality(WithData) < MaxData
    /\ nodes' = Append(nodes, [id |-> Len(nodes) + 1, type |-> t, data |-> d])
    /\ xres' = NoResult
    /\ UNCHANGED <<uiVars, edges, vres, engineVars>>

AddNode(t, d) == vres = NoResult /\ addNode(t, d)

\* addEdge: edges are listed by target (incoming edges are read per target, in
\* list order); a sink has no source handle, so it is never an edge's source
addEdge(src, tgt, h, fb) ==
    /\ Len(edges) < MaxEdges
    /\ tgt \in NodeIds
    /\ \/ src = GhostId /\ (HasGhost \/ Len(nodes) < MaxNodes)
       \/ src \in NodeIds /\ NodeOf(nodes, src).type # "out"
    /\ h # NoHandle => NodeOf(nodes, tgt).type = "blend"
    /\ edges # <<>> => edges[Len(edges)].target <= tgt
    /\ edges' = Append(edges, [id |-> Len(edges) + 1, source |-> src, target |-> tgt,
                               targetHandle |-> h, isFeedback |-> fb])
    /\ xres' = NoResult
    /\ UNCHANGED <<uiVars, nodes, vres, engineVars>>

AddEdge(src, tgt, h, fb) == vres = NoResult /\ addEdge(src, tgt, h, fb)

\* a call of validateGraph on the store's graph
Validate ==
    /\ vres = NoResult
    /\ nodes # <<>>
    /\ vres' = validateGraph(nodes, edges)
    /\ UNCHANGED <<uiVars, graphVars, engineVars, xres>>

\* In SpecRevalidate the store is edited between calls of validateGraph, and vres
\* carries the arguments of the call it came from (args) and of the call before
\* that one (before).
NoCall == [nodes |-> <<>>, edges |-> <<>>]

\* two calls have been made
Revalidated == vres.called /\ vres.before # NoCall

EditNode(t, d) == ~Revalidated /\ addNode(t, d)

EditEdge(src, tgt, h, fb) == ~Revalidated /\ addEdge(src, tgt, h, fb)

\* a call of validateGraph on the store's graph, after any earlier calls; a
\* third call is made on the graph of the second only
Revalidate ==
    /\ nodes # <<>>
    /\ Revalidated => vres.args = [nodes |-> nodes, edges |-> edges] /\ vres.before # vres.args
    /\ vres' = validateGraph(nodes, edges)
                @@ [args |-> [nodes |-> nodes, edges |-> edges],
                    before |-> IF vres.called THEN vres.args ELSE NoCall]
    /\ UNCHANGED <<uiVars, graphVars, engineVars, xres>>

\* init(canvas) up to its await: the canvas is kept, the imports are pending.
\* The component calls init once per engine it holds; the model allows another
\* call once the engine holds no runtime and no call is pending.
InitStart ==
    /\ initPc # "awaiting"
    /\ hydra = 0
    /\ created < MaxRuntimes
    /\ nodes # <<>>
    /\ canvas' = 1
    /\ initPc' = "awaiting"
    /\ destroyedAt' = "never"
    /\ xres' = NoResult
    /\ UNCHANGED <<uiVars, graphVars, vres, hydra, isInitialized, cameraVars, regl, onResizeHandler, created>>

\* the continuation of init after its await.  failsAt is where it throws: at the
\* imports, in createREGL, in new Hydra, or nowhere.
InitResume(failsAt) ==
    /\ initPc = "awaiting"
    /\ regl' = IF failsAt \in {"import", "createREGL"} THEN regl ELSE created + 1
    /\ hydra' = IF failsAt = "none" THEN created + 1 ELSE hydra
    /\ created' = IF failsAt = "none" THEN created + 1 ELSE created
    /\ onResizeHandler' = IF failsAt = "none" THEN TRUE ELSE onResizeHandler
    /\ isInitialized' = IF failsAt = "none" THEN TRUE ELSE isInitialized
    /\ initPc' = IF failsAt = "none" THEN "done" ELSE "failed"
    /\ xres' = NoResult
    /\ UNCHANGED <<uiVars, graphVars, vres, cameraVars, canvas, destroyedAt>>

InitFailures == {"none", "import", "createREGL", "newHydra"}

\* destroy()
Destroy ==
    /\ initPc # "none"
    /\ \/ destroyedAt # initPc
       \/ hydra # 0 \/ regl # 0 \/ onResizeHandler \/ isInitialized
    /\ onResizeHandler' = FALSE
    /\ hydra' = 0
    /\ regl' = 0
    /\ isInitialized' = FALSE
    /\ destroyedAt' = initPc
    /\ xres' = NoResult
    /\ UNCHANGED <<uiVars, graphVars, vres, cameraVars, canvas, initPc, created>>

\* init(canvas) from its call to its completion, nothing running in between
EngineInit ==
    /\ hydra = 0
    /\ initPc = "none"
    /\ vres = NoResult /\ xres = NoResult
    /\ nodes # <<>>
    /\ canvas' = 1
    /\ regl' = created + 1
    /\ hydra' = created + 1
    /\ created' = created + 1
    /\ onResizeHandler' = TRUE
    /\ isInitialized' = TRUE
    /\ initPc' = "done"
    /\ UNCHANGED <<uiVars, graphVars, vres, cameraVars, xres, destroyedAt>>

\* the calls of sources[CAMERA_SOURCE_INDEX].initCam among the runtime calls
InitCamLogged(calls) == {i \in DOMAIN calls : calls[i].fn = "initCam"}

\* the runtime functions a graph can make the engine call
CalledFns ==
    ({"out"} \cup ({nodes[i].type : i \in DOMAIN nodes} \ {"camera"}))
    \cup (IF \E i \in DOMAIN nodes : nodes[i].type = "camera" THEN {"src", "initCam"} ELSE {})
    \cup (IF \E i \in DOMAIN edges : edges[i].isFeedback THEN {"src"} ELSE {})

\* how the runtime behaves during one call: one function throws or is missing
Faults ==
    {NoFault}
    \cup {[kind |-> "throws", fn |-> f] : f \in CalledFns}
    \cup {[kind |-> "missing", fn |-> f] : f \in CalledFns \cap {"src", "initCam", "osc"}}

\* the call reaches the compile loop: only then does the runtime's behaviour matter
Compiles(baseValidation) ==
    hydra # 0 /\ isInitialized /\ ~HasSeverity(baseValidation.issues, "error")

\* a call of executeGraph(nodes, edges) under some behaviour of the runtime
Execute ==
    /\ vres = NoResult
    /\ nodes # <<>>
    /\ xres = NoResult
    /\ LET baseValidation == validateIssues(nodes, edges)
       IN \E env \in (IF Compiles(baseValidation) THEN Faults ELSE {NoFault}) :
             xres' = executeGraphFrom(baseValidation,
                                      [hydra |-> hydra, isInitialized |-> isInitialized,
                                       isCameraInitialised |-> isCameraInitialised,
                                       cameraInitError |-> cameraInitError],
                                      env, nodes, edges)
    /\ isCameraInitialised' = xres'.cam
    /\ cameraInitError' = xres'.camErr
    /\ initCamCalls' = initCamCalls \o [i \in 1..Cardinality(InitCamLogged(xres'.calls)) |-> hydra]
    /\ UNCHANGED <<uiVars, graphVars, vres, hydra, isInitialized, lifeVars>>

Next ==
    \/ \E t \in Range(NodeTypes) : \E d \in DataOptions(t) : AddNode(t, d)
    \/ \E src \in 0..MaxNodes, tgt \in 1..MaxNodes, h \in Handles, fb \in BOOLEAN :
          AddEdge(src, tgt, h, fb)
    \/ Validate

Spec == Init /\ [][Next]_vars

NextEngine ==
    \/ \E t \in EngineTypes : \E d \in ParamData(t) : AddNode(t, d)
    \/ \E src \in 1..MaxNodes, tgt \in 1..MaxNodes, h \in Handles, fb \in BOOLEAN :
          AddEdge(src, tgt, h, fb)
    \/ EngineInit
    \/ Execute

SpecEngine == Init /\ [][NextEngine]_vars

NextRevalidate ==
    \/ \E t \in EngineTypes : EditNode(t, <<>>)
    \/ \E src \in 1..MaxNodes, tgt \in 1..MaxNodes, h \in Handles, fb \in BOOLEAN :
          EditEdge(src, tgt, h, fb)
    \/ Revalidate

SpecRevalidate == Init /\ [][NextRevalidate]_vars

\* the graphs the engine's lifecycle is run on: sources and sinks, the camera included
LifeTypes == {"out", "osc", "camera"}

NextLifecycle ==
    \/ \E t \in LifeTypes : \E d \in EngineData(t) : AddNode(t, d)
    \/ \E src \in 1..MaxNodes, tgt \in 1..MaxNodes : AddEdge(src, tgt, NoHandle, FALSE)
    \/ InitStart
    \/ \E failsAt \in InitFailures : InitResume(failsAt)
    \/ Destroy
    \/ Execute

SpecLifecycle == Init /\ [][NextLifecycle]_vars

\* the graphs both traversals are run on: sinks, unary and binary nodes, wired
\* in every way, edges from a node that does not exist included
TraversalTypes == {"out", "rotate", "blend"}

NextTraversal ==
    \/ \E t \in TraversalTypes : AddNode(t, <<>>)
    \/ \E src \in 0..MaxNodes, tgt \in 1..MaxNodes, h \in Handles, fb \in BOOLEAN :
          AddEdge(src, tgt, h, fb)
    \/ EngineInit
    \/ Execute

SpecTraversal == Init /\ [][NextTraversal]_vars

----------------------------------------------------------------------------
(* HydraCanvas.svelte: mount, destroy and the debounced executeGraph *)

EXECUTE_DEBOUNCE_MS == 50

\* time advances in steps of half the debounce delay
TickMs == EXECUTE_DEBOUNCE_MS \div 2

NoGraph == [nodes |-> <<>>, edges |-> <<>>]

\* the graphs the parent passes as the props nodes and edges
GraphOf(t) ==
    [nodes |-> <<[id |-> 1, type |-> "out", data |-> <<>>], [id |-> 2, type |-> t, data |-> <<>>]>>,
     edges |-> <<[id |-> 1, source |-> 2, target |-> 1, targetHandle |-> NoHandle,
                  isFeedback |-> FALSE]>>]

CanvasGraphs == {NoGraph, GraphOf("osc"), GraphOf("camera")}

Event(op, given, armedAt) ==
    [op |-> op, destroyed |-> destroyed, given |-> given,
     latest |-> [nodes |-> nodes, edges |-> edges], armedAt |-> armedAt, at |-> now]

TimerIds == {t.id : t \in timers} \cup {debounceTimer}

NextTimerId == CHOOSE id \in 1..(MaxChanges + 2) : \A used \in TimerIds : used < id

\* clearTimeout(id)
clearTimeout(ts, id) == {t \in ts : t.id # id}

\* the $effect: when the component is initialised, holds an engine and the graph
\* has nodes, the timer last set is cleared and a new one is set for the graph.
\* Yields the new debounceTimer and timers.
effect(initialised, g) ==
    IF ~(initialised /\ engine /\ Len(g.nodes) > 0)
    THEN [debounceTimer |-> debounceTimer, timers |-> timers]
    ELSE [debounceTimer |-> NextTimerId,
          timers |-> clearTimeout(timers, debounceTimer)
                     \cup {[id |-> NextTimerId, nodes |-> g.nodes, edges |-> g.edges,
                             armedAt |-> now, due |-> now + EXECUTE_DEBOUNCE_MS]}]

\* the component is created with its props; onMount runs up to the import.
\* The first run of the effect finds isInitialized false and returns.
Mount ==
    /\ mountPc = "none"
    /\ mountPc' = "import"
    /\ UNCHANGED <<graphVars, vres, xres, engineVars, engine, canvasInitialized, debounceTimer,
                   timers, destroyed, now, events, flowEdges>>

\* the import resolves (or fails): the engine is created and init(canvas) runs up
\* to its await
MountImported(ok) ==
    /\ mountPc = "import"
    /\ mountPc' = IF ok THEN "init" ELSE "failed"
    /\ engine' = ok
    /\ canvas' = IF ok THEN 1 ELSE canvas
    /\ initPc' = IF ok THEN "awaiting" ELSE initPc
    /\ UNCHANGED <<graphVars, vres, xres, hydra, isInitialized, cameraVars, regl, onResizeHandler,
                   destroyedAt, created, canvasInitialized, debounceTimer, timers, destroyed,
                   now, events, flowEdges>>

\* init(canvas) resumes and resolves or throws at failsAt; when it resolves,
\* onMount goes on with engine.start() and isInitialized = true, and the effect
\* runs again unless the component was destroyed
MountInitResolved(failsAt) ==
    /\ mountPc = "init"
    /\ regl' = IF failsAt \in {"import", "createREGL"} THEN regl ELSE created + 1
    /\ hydra' = IF failsAt = "none" THEN created + 1 ELSE hydra
    /\ created' = IF failsAt = "none" THEN created + 1 ELSE created
    /\ onResizeHandler' = IF failsAt = "none" THEN TRUE ELSE onResizeHandler
    /\ isInitialized' = IF failsAt = "none" THEN TRUE ELSE isInitialized
    /\ initPc' = IF failsAt = "none" THEN "done" ELSE "failed"
    /\ mountPc' = IF failsAt = "none" THEN "done" ELSE "failed"
    /\ canvasInitialized' = (failsAt = "none")
    /\ events' = IF failsAt = "none" THEN Append(events, Event("start", NoGraph, now)) ELSE events
    /\ LET after == IF failsAt = "none" /\ ~destroyed
                    THEN effect(TRUE, [nodes |-> nodes, edges |-> edges])
                    ELSE [debounceTimer |-> debounceTimer, timers |-> timers]
       IN debounceTimer' = after.debounceTimer /\ timers' = after.timers
    /\ UNCHANGED <<graphVars, vres, xres, cameraVars, canvas, destroyedAt, engine, destroyed, now,
                   flowEdges>>

\* the parent passes another graph and the effect runs
GraphChange(g) ==
    /\ mountPc # "none"
    /\ ~destroyed
    /\ g # [nodes |-> nodes, edges |-> edges]
    /\ Cardinality({i \in DOMAIN events : events[i].op = "change"}) < MaxChanges
    /\ nodes' = g.nodes
    /\ edges' = g.edges
    /\ events' = Append(events, Event("change", g, now))
    /\ LET after == effect(canvasInitialized, g)
       IN debounceTimer' = after.debounceTimer /\ timers' = after.timers
    /\ UNCHANGED <<vres, xres, engineVars, mountPc, engine, canvasInitialized, destroyed, now,
                   flowEdges>>

\* a timeout fires: executeGraph is called with the graph the effect captured
TimerFires(t) ==
    /\ t \in timers
    /\ now >= t.due
    /\ timers' = timers \ {t}
    /\ IF ~engine
       THEN UNCHANGED <<xres, cameraVars, events>>
       ELSE /\ xres' = executeGraphFrom(validateIssues(t.nodes, t.edges),
                                        [hydra |-> hydra, isInitialized |-> isInitialized,
                                         isCameraInitialised |-> isCameraInitialised,
                                         cameraInitError |-> cameraInitError],
                                        NoFault, t.nodes, t.edges)
            /\ isCameraInitialised' = xres'.cam
            /\ cameraInitError' = xres'.camErr
            /\ initCamCalls' = initCamCalls
                                 \o [i \in 1..Cardinality(InitCamLogged(xres'.calls)) |-> hydra]
            /\ events' = Append(events, Event("executeGraph",
                                              [nodes |-> t.nodes, edges |-> t.edges], t.armedAt))
    /\ UNCHANGED <<graphVars, vres, hydra, isInitialized, lifeVars, mountPc, engine,
                   canvasInitialized, debounceTimer, destroyed, now, flowEdges>>

\* onDestroy: the timer last set is cleared and the engine, if any, destroyed
Unmount ==
    /\ mountPc # "none"
    /\ ~destroyed
    /\ destroyed' = TRUE
    /\ timers' = clearTimeout(timers, debounceTimer)
    /\ onResizeHandler' = IF engine THEN FALSE ELSE onResizeHandler
    /\ hydra' = IF engine THEN 0 ELSE hydra
    /\ regl' = IF engine THEN 0 ELSE regl
    /\ isInitialized' = IF engine THEN FALSE ELSE isInitialized
    /\ destroyedAt' = IF engine THEN initPc ELSE destroyedAt
    /\ UNCHANGED <<graphVars, vres, xres, cameraVars, canvas, initPc, created, mountPc, engine,
                   canvasInitialized, debounceTimer, now, events, flowEdges>>

\* time passes
Tick ==
    /\ now < MaxTicks * TickMs
    /\ now' = now + TickMs
    /\ UNCHANGED <<graphVars, vres, xres, engineVars, mountPc, engine, canvasInitialized,
                   debounceTimer, timers, destroyed, events, flowEdges>>

NextCanvas ==
    \/ Mount
    \/ \E ok \in BOOLEAN : MountImported(ok)
    \/ \E failsAt \in InitFailures : MountInitResolved(failsAt)
    \/ \E g \in CanvasGraphs : GraphChange(g)
    \/ \E t \in timers : TimerFires(t)
    \/ Unmount
    \/ Tick

SpecCanvas == Init /\ [][NextCanvas]_vars

----------------------------------------------------------------------------
(* FlowEditor.svelte: connections, deletes and the delay flags of the edges *)

\* adjacency.get(current) ?? []: adjacency is the list of the edges added so far
Neighbours(adjacency, current) ==
    LET P(e) == e.source = current IN SelectSeq(adjacency, P)

RECURSIVE PushUnvisited(_, _, _)
PushUnvisited(stack, neighbours, visited) ==
    IF neighbours = <<>> THEN stack
    ELSE PushUnvisited(IF neighbours[1].target \in visited THEN stack
                       ELSE Append(stack, neighbours[1].target),
                       Tail(neighbours), visited)

\* the while loop of wouldCreateCycle
RECURSIVE SearchGoal(_, _, _, _)
SearchGoal(adjacency, goal, stack, visited) ==
    IF stack = <<>> THEN FALSE
    ELSE LET current == stack[Len(stack)]
             rest == SubSeq(stack, 1, Len(stack) - 1)
         IN IF current = goal THEN TRUE
            ELSE IF current \in visited THEN SearchGoal(adjacency, goal, rest, visited)
            ELSE SearchGoal(adjacency, goal,
                            PushUnvisited(rest, Neighbours(adjacency, current),
                                          visited \cup {current}),
                            visited \cup {current})

wouldCreateCycle(adjacency, source, target) == SearchGoal(adjacency, source, <<target>>, {})

\* the first loop of the effect: the desired flag of each edge, an edge that
\* carries delayFrames keeping it and staying out of adjacency
RECURSIVE desiredDelayFlags(_, _, _)
desiredDelayFlags(es, k, adjacency) ==
    IF k > Len(es) THEN <<>>
    ELSE IF es[k].delayFrames > 0
    THEN <<1>> \o desiredDelayFlags(es, k + 1, adjacency)
    ELSE IF wouldCreateCycle(adjacency, es[k].source, es[k].target)
    THEN <<1>> \o desiredDelayFlags(es, k + 1, adjacency)
    ELSE <<0>> \o desiredDelayFlags(es, k + 1, Append(adjacency, es[k]))

\* one run of the effect on the list es (delayFrames 0 is an edge without the field)
delayEffect(es) ==
    IF Len(es) = 0 THEN es
    ELSE LET desired == desiredDelayFlags(es, 1, <<>>)
         IN IF \A i \in DOMAIN es : es[i].delayFrames = desired[i] THEN es
            ELSE [i \in DOMAIN es |-> [es[i] EXCEPT !.delayFrames = desired[i]]]

\* the effect assigns edges, which runs it again, until a run changes nothing
RECURSIVE settle(_)
settle(es) == IF delayEffect(es) = es THEN es ELSE settle(delayEffect(es))

\* disconnectExistingTarget
disconnectExistingTarget(es, target, targetHandle) ==
    LET Keep(e) == e.target # target \/ e.targetHandle # targetHandle IN SelectSeq(es, Keep)

FlowNodeIds == 1..MaxNodes

FlowHandles == {"input-0", "input-1"}

\* a connection is drawn: handleBeforeConnect frees the target handle, the
\* editor appends the edge, and the effect runs
Connect(source, target, targetHandle) ==
    /\ Len(disconnectExistingTarget(flowEdges, target, targetHandle)) < MaxEdges
    /\ flowEdges' = settle(Append(disconnectExistingTarget(flowEdges, target, targetHandle),
                                  [source |-> source, target |-> target,
                                   targetHandle |-> targetHandle, delayFrames |-> 0]))
    /\ UNCHANGED <<graphVars, vres, xres, engineVars, canvasVars>>

\* handleDelete for one deleted edge, and the effect runs
DeleteEdge(i) ==
    /\ i \in DOMAIN flowEdges
    /\ flowEdges' = settle(SubSeq(flowEdges, 1, i - 1) \o SubSeq(flowEdges, i + 1, Len(flowEdges)))
    /\ UNCHANGED <<graphVars, vres, xres, engineVars, canvasVars>>

\* handleDelete for one deleted node: the edges connected to it go, and the effect runs
DeleteNode(n) ==
    /\ \E i \in DOMAIN flowEdges : flowEdges[i].source = n \/ flowEdges[i].target = n
    /\ LET Keep(e) == e.source # n /\ e.target # n
       IN flowEdges' = settle(SelectSeq(flowEdges, Keep))
    /\ UNCHANGED <<graphVars, vres, xres, engineVars, canvasVars>>

NextEditor ==
    \/ \E source \in FlowNodeIds, target \in FlowNodeIds, targetHandle \in FlowHandles :
          Connect(source, target, targetHandle)
    \/ \E i \in 1..MaxEdges : DeleteEdge(i)
    \/ \E n \in FlowNodeIds : DeleteNode(n)

SpecEditor == Init /\ [][NextEditor]_vars

----------------------------------------------------------------------------
(* Properties of validateGraph, stated on vres *)

\* the ids of the nodes with an edge into a node of S
SourcesInto(S) == {edges[i].source : i \in {j \in DOMAIN edges : edges[j].target \in S}}

RECURSIVE Upstream(_)
Upstream(S) == IF SourcesInto(S) \subseteq S THEN S ELSE Upstream(S \cup SourcesInto(S))

\* the nodes from which a path of edges leads to a sink (a sink leads to itself)
LeadsToSink == Upstream({nodes[i].id : i \in {j \in DOMAIN nodes : nodes[j].type = "out"}})

IssuesAbout(id) == {i \in DOMAIN vres.issues : vres.issues[i].nodeId = id}

IssuesOfKind(kind) == {i \in DOMAIN vres.issues : vres.issues[i].kind = kind}

\* C1: a node from which no path of edges leads to a sink is dead in the result
\* of validateGraph and no issue carries its nodeId, however malformed it is.
C1_DeadNodesSilent ==
    vres.called =>
        \A id \in NodeIds \ LeadsToSink :
            vres.nodeStatusById[id].isDead /\ IssuesAbout(id) = {}

\* the ids of the nodes with a non-feedback edge into a node of S
ForwardSourcesInto(S) ==
    {edges[i].source : i \in {j \in DOMAIN edges : edges[j].target \in S /\ ~edges[j].isFeedback}}

RECURSIVE ForwardUpstream(_)
ForwardUpstream(S) ==
    IF ForwardSourcesInto(S) \subseteq S THEN S ELSE ForwardUpstream(S \cup ForwardSourcesInto(S))

\* id lies on a directed cycle made of non-feedback edges only
OnForwardCycle(id) == id \in ForwardUpstream(ForwardSourcesInto({id}))

EveryCycleHasFeedback == \A id \in NodeIds : ~OnForwardCycle(id)

\* a node declared unary whose only incoming edge is a feedback edge
FeedbackOnlyUnary(id) ==
    /\ arityByName(NodeOf(nodes, id).type) = 1
    /\ Len(Incoming(edges, id)) = 1
    /\ Incoming(edges, id)[1].isFeedback

\* C6: when every directed cycle of the graph holds a feedback edge, validateGraph
\* reports no CYCLE issue; and a unary node whose only incoming edge is a feedback
\* edge gets no NODE_MISSING_INPUTS issue.
C6_FeedbackBreaksCycles ==
    vres.called =>
        /\ EveryCycleHasFeedback => IssuesOfKind("CYCLE") = {}
        /\ \A id \in NodeIds :
              FeedbackOnlyUnary(id) => IssuesAbout(id) \cap IssuesOfKind("NODE_MISSING_INPUTS") = {}

\* a traversed unary node whose one input is its own feedback self-loop, in a graph
\* that validates without issues
C6_Witness ==
    /\ vres.called
    /\ vres.issues = <<>>
    /\ \E i \in DOMAIN edges :
          /\ edges[i].source = edges[i].target
          /\ edges[i].isFeedback
          /\ FeedbackOnlyUnary(edges[i].target)
          /\ edges[i].target \in DOMAIN vres.buildMemo

\* the nodes feeding sink s through its one input and then non-feedback edges
FedInto(s) == ForwardUpstream({Incoming(edges, s)[1].source})

\* sink s has exactly one input, and every node feeding it is a node of known type
\* with exactly its declared number of inputs
WellFormedAbove(s) ==
    /\ Len(Incoming(edges, s)) = 1
    /\ \A id \in FedInto(s) :
          /\ id \in NodeIds
          /\ kindByName(NodeOf(nodes, id).type) # "unknown"
          /\ Len(Incoming(edges, id)) = arityByName(NodeOf(nodes, id).type)

SinkIds == {nodes[i].id : i \in {j \in DOMAIN nodes : nodes[j].type = "out"}}

\* C7: when the nodes feeding a sink (well-formed as above) contain a directed
\* cycle of non-feedback edges, validateGraph reports a CYCLE issue of severity
\* error whose nodeId lies on such a cycle among those nodes, whichever sink is
\* traversed first and whatever earlier sinks memoized.
C7_SameFrameCycleReported ==
    vres.called =>
        \A s \in SinkIds :
            (WellFormedAbove(s) /\ \E id \in FedInto(s) : OnForwardCycle(id)) =>
                \E i \in IssuesOfKind("CYCLE") :
                    /\ vres.issues[i].severity = "error"
                    /\ vres.issues[i].nodeId \in FedInto(s)
                    /\ OnForwardCycle(vres.issues[i].nodeId)

\* two traversed sinks fed by the same forward cycle
C7_Witness ==
    /\ vres.called
    /\ Cardinality(vres.roots) = 2
    /\ \A s \in vres.roots : WellFormedAbove(s) /\ \E id \in FedInto(s) : OnForwardCycle(id)

\* the live nodes of known type that validateNodeChain went through
Traversed ==
    {id \in DOMAIN vres.buildMemo \cap NodeIds :
        /\ kindByName(NodeOf(nodes, id).type) # "unknown"
        /\ ~vres.nodeStatusById[id].isDead}

ArityIssues(id, kind, severity) ==
    {i \in IssuesAbout(id) : vres.issues[i].kind = kind /\ vres.issues[i].severity = severity}

\* C8: for every live node of known type the validator traverses, with declared
\* arity w and h incoming edges (forward and feedback alike): h = w gives no arity
\* issue, h < w exactly one NODE_MISSING_INPUTS error, h > w exactly one
\* NODE_EXTRA_INPUTS warning and no arity issue of severity error.
C8_ArityBoundary ==
    vres.called =>
        \A id \in Traversed :
            LET w == arityByName(NodeOf(nodes, id).type)
                h == Len(Incoming(edges, id))
                missing == IssuesAbout(id) \cap IssuesOfKind("NODE_MISSING_INPUTS")
                extra == IssuesAbout(id) \cap IssuesOfKind("NODE_EXTRA_INPUTS")
            IN /\ Cardinality(missing) = (IF h < w THEN 1 ELSE 0)
               /\ Cardinality(extra) = (IF h > w THEN 1 ELSE 0)
               /\ missing = ArityIssues(id, "NODE_MISSING_INPUTS", "error")
               /\ extra = ArityIssues(id, "NODE_EXTRA_INPUTS", "warning")

\* a traversed node with more inputs than declared, one of them a feedback edge
C8_Witness ==
    /\ vres.called
    /\ \E id \in Traversed :
          /\ arityByName(NodeOf(nodes, id).type) >= 1
          /\ Len(Incoming(edges, id)) > arityByName(NodeOf(nodes, id).type)
          /\ \E i \in DOMAIN edges : edges[i].target = id /\ edges[i].isFeedback
          /\ ArityIssues(id, "NODE_EXTRA_INPUTS", "warning") # {}

\* v is an integer of 0 .. numOutputs - 1
ValidIndex(v) == \E k \in 0..(NumOutputs - 1) : v = Num(k)

\* C9: for every sink, validateGraph reports exactly one OUTPUT_INDEX_OUT_OF_RANGE
\* error when the sink's outputIndex is not an integer of [0, numOutputs) and none
\* otherwise; the issue carries the sink's id and the invalid value, and its
\* message names the value and the range 0 to numOutputs - 1.
C9_OutputRange ==
    vres.called =>
        \A n \in Range(OutputNodes(nodes)) :
            LET v == OutputIndexOf(n)
                found == IssuesAbout(n.id) \cap IssuesOfKind("OUTPUT_INDEX_OUT_OF_RANGE")
            IN /\ Cardinality(found) = (IF ValidIndex(v) THEN 0 ELSE 1)
               /\ \A i \in found :
                     /\ vres.issues[i].severity = "error"
                     /\ vres.issues[i].outputIndex = v
                     /\ vres.issues[i].message =
                            "Output index " \o NumStr(v) \o " out of range (0..."
                                \o ToString(NumOutputs - 1) \o ")"

\* a sink whose outputIndex is numOutputs, reported once
C9_Witness ==
    /\ vres.called
    /\ \E n \in Range(OutputNodes(nodes)) :
          /\ OutputIndexOf(n) = Num(NumOutputs)
          /\ Cardinality(IssuesAbout(n.id) \cap IssuesOfKind("OUTPUT_INDEX_OUT_OF_RANGE")) = 1

----------------------------------------------------------------------------
(* Properties of executeGraph, stated on xres *)

\* the call found the engine initialised
Ready == xres.eng.hydra # 0 /\ xres.eng.isInitialized

StructuralErrors ==
    {i \in DOMAIN xres.structural : xres.structural[i].severity = "error"}

\* C2: when validateGraph reports an issue of severity error, executeGraph calls
\* no runtime function, attaches no chain, leaves the camera fields as they were
\* and returns exactly the validator's issues.
C2_ErrorSkipsCompilation ==
    (xres.called /\ HasSeverity(validateIssues(nodes, edges).issues, "error")) =>
        /\ ~xres.threw
        /\ xres.calls = <<>>
        /\ xres.attached = <<>>
        /\ xres.cam = xres.eng.isCameraInitialised
        /\ xres.camErr = xres.eng.cameraInitError
        /\ isCameraInitialised = xres.eng.isCameraInitialised
        /\ cameraInitError = xres.eng.cameraInitError
        /\ xres.issues = validateIssues(nodes, edges).issues

\* an initialised engine whose camera was started by an earlier call is given a
\* graph with a camera node and a structural error
C2_Witness ==
    /\ xres.called
    /\ Ready
    /\ xres.eng.isCameraInitialised
    /\ \E j \in DOMAIN edges : NodeOf(nodes, edges[j].source).type = "camera"
    /\ StructuralErrors # {}
    /\ xres.calls = <<>>

\* the sinks with exactly one incoming edge
OneInputSinks == {s \in SinkIds : Len(Incoming(edges, s)) = 1}

IndexOfSink(s) == OutputIndexOf(NodeOf(nodes, s))

AttachedTo(outputIndex) ==
    {i \in DOMAIN xres.attached : xres.attached[i].outputIndex = outputIndex}

\* no structural error names sink s or a node upstream of it
SinkValid(s) ==
    \A i \in StructuralErrors : xres.structural[i].nodeId \notin Upstream({s})

RaisedCalls == {i \in DOMAIN xres.calls : xres.calls[i].chain = NoChain
                                          /\ xres.calls[i].fn # "initCam"}

\* C4: executeGraph never throws: an exception raised by a runtime call of the
\* compile pass becomes a RUNTIME_EXECUTION_ERROR issue on the offending node, and
\* the remaining sinks of the pass are still compiled.
C4_NeverThrows ==
    (xres.called /\ Ready /\ StructuralErrors = {}) =>
        /\ ~xres.threw
        /\ xres.compiled = SinkIds
        /\ \A c \in RaisedCalls :
              \E i \in DOMAIN xres.issues :
                  /\ xres.issues[i].kind = "RUNTIME_EXECUTION_ERROR"
                  /\ xres.issues[i].nodeId = xres.calls[c].node

\* the output indices a chain reads back through src(outputs[k])
RECURSIVE FeedbackReads(_)
FeedbackReads(chain) ==
    IF chain.op = "none" THEN {}
    ELSE (IF chain.arg.kind = "output" THEN {chain.arg.index} ELSE {})
         \cup FeedbackReads(chain.base) \cup FeedbackReads(chain.other)

\* the nodes a compiled sink is fed by through forward edges
ForwardFed == UNION {FedInto(s) : s \in xres.compiled}

\* C5: in the chain attached to output k every feedback input reads
\* src(outputs[k]), also when the node with the feedback input feeds several
\* sinks; a unary node fed by a feedback edge alone is applied to src(outputs[k]);
\* and no runtime call is made for a node reached through feedback edges only.
C5_FeedbackPerOutput ==
    xres.called =>
        /\ \A i \in DOMAIN xres.attached :
              FeedbackReads(xres.attached[i].chain) \subseteq {xres.attached[i].outputIndex}
        /\ \A s \in xres.compiled :
              LET r == Incoming(edges, s)[1].source
                  k == IndexOfSink(s)
              IN (xres.env = NoFault /\ FeedbackOnlyUnary(r)) =>
                    \E i \in AttachedTo(k) :
                        /\ xres.attached[i].chain.op = NodeOf(nodes, r).type
                        /\ xres.attached[i].chain.base =
                               Chain("src", NoChain, NoChain, OutputArg(k), <<>>)
        /\ \A i \in DOMAIN xres.calls : xres.calls[i].node \in ForwardFed

\* one node with a feedback input feeds two sinks of different output indices, and
\* each attached chain reads its own output
C5_Witness ==
    /\ xres.called
    /\ Len(xres.attached) = 2
    /\ xres.attached[1].outputIndex # xres.attached[2].outputIndex
    /\ \A i \in DOMAIN xres.attached :
          FeedbackReads(xres.attached[i].chain) = {xres.attached[i].outputIndex}
    /\ \E r \in NodeIds : \A s \in SinkIds : Incoming(edges, s)[1].source = r

\* the OUTPUT_ARITY issues the validation inside executeGraph reported for sink s
OutputArityIssues(s) ==
    {i \in DOMAIN xres.structural :
        xres.structural[i].kind = "OUTPUT_ARITY" /\ xres.structural[i].nodeId = s}

\* C10: a sink with a number of incoming edges other than 1 gets exactly one
\* OUTPUT_ARITY error that states that number, and is neither traversed by the
\* validator nor compiled by executeGraph; a sink with exactly one incoming edge
\* gets no OUTPUT_ARITY issue.
C10_OutputArity ==
    xres.called =>
        \A s \in SinkIds :
            LET h == Len(Incoming(edges, s))
            IN /\ Cardinality(OutputArityIssues(s)) = (IF h = 1 THEN 0 ELSE 1)
               /\ \A i \in OutputArityIssues(s) :
                     /\ xres.structural[i].severity = "error"
                     /\ xres.structural[i].message =
                            "Output expects exactly 1 input, found " \o ToString(h)
                     /\ xres.issues[i] = xres.structural[i]
               /\ h # 1 => s \notin xres.roots /\ s \notin xres.compiled

\* an initialised engine is given a sink with two inputs beside a sink with one
C10_Witness ==
    /\ xres.called
    /\ Ready
    /\ \E s, t \in SinkIds :
          /\ Len(Incoming(edges, s)) = 2
          /\ Cardinality(OutputArityIssues(s)) = 1
          /\ s \notin xres.roots
          /\ t \in xres.roots

----------------------------------------------------------------------------
(* C11 *)

NoDuplicateKeys(is) == \A i, j \in DOMAIN is : is[i].key = is[j].key => i = j

\* the positions of a list whose key no earlier position carries
FirstOfKey(all) == {i \in DOMAIN all : \A j \in 1..(i - 1) : all[j].key # all[i].key}

\* kept is all restricted to the first entry of every key, in all's order
RECURSIVE KeepsFirst(_, _, _, _)
KeepsFirst(all, i, kept, k) ==
    IF i > Len(all) THEN k > Len(kept)
    ELSE IF i \in FirstOfKey(all)
         THEN k <= Len(kept) /\ kept[k] = all[i] /\ KeepsFirst(all, i + 1, kept, k + 1)
         ELSE KeepsFirst(all, i + 1, kept, k)

\* C11: neither the validator's issue list nor the one executeGraph returns has
\* two issues with one key, and each is what its passes produced (for
\* executeGraph: the validator's list followed by the builder's issues) cut down
\* to the first entry of every key, in the order produced.
C11_DedupeByKey ==
    xres.called =>
        /\ NoDuplicateKeys(xres.structural)
        /\ KeepsFirst(xres.structuralAll, 1, xres.structural, 1)
        /\ NoDuplicateKeys(xres.issues)
        /\ KeepsFirst(xres.allIssues, 1, xres.issues, 1)

\* two sinks share a failing ancestor: the validator produced its issue twice
C11_Witness ==
    /\ xres.called
    /\ ~NoDuplicateKeys(xres.structuralAll)
    /\ \E i, j \in DOMAIN xres.structuralAll :
          /\ i # j
          /\ xres.structuralAll[i].key = xres.structuralAll[j].key
          /\ xres.structuralAll[i].kind = "NODE_MISSING_INPUTS"

----------------------------------------------------------------------------
(* C12 *)

\* what a call that starts with nothing memoized returns for a graph
FreshIssues(g) == validateFrom(g.nodes, g.edges, computeReachability(g.nodes, g.edges), <<>>).issues

----------------------------------------------------------------------------
(* C13 *)

\* an issue of the result is attached to the node and has the severity
NodeHas(id, sev) == \E i \in DOMAIN vres.issues : vres.issues[i].nodeId = id /\ vres.issues[i].severity = sev

EdgeHas(id, sev) == \E i \in DOMAIN vres.issues : vres.issues[i].edgeId = id /\ vres.issues[i].severity = sev

EndpointError(e) ==
    \/ e.source \in NodeIds /\ vres.nodeStatusById[e.source].hasError
    \/ e.target \in NodeIds /\ vres.nodeStatusById[e.target].hasError

\* C13: in a result of validateGraph, a node's hasError is true iff an issue
\* attached to it is an error, an edge's hasError is true iff an issue attached
\* to it is an error or an endpoint node has an error, and no node and no edge
\* has hasWarning true together with hasError.
C13_ErrorSuppressesWarning ==
    vres.called =>
        /\ \A id \in NodeIds :
              /\ vres.nodeStatusById[id].hasError <=> NodeHas(id, "error")
              /\ vres.nodeStatusById[id].hasError => ~vres.nodeStatusById[id].hasWarning
        /\ \A i \in DOMAIN edges :
              /\ vres.edgeStatusById[edges[i].id].hasError
                    <=> (EdgeHas(edges[i].id, "error") \/ EndpointError(edges[i]))
              /\ vres.edgeStatusById[edges[i].id].hasError
                    => ~vres.edgeStatusById[edges[i].id].hasWarning

----------------------------------------------------------------------------
(* C14 *)

EndpointFlag(e, flag) ==
    \/ e.source \in NodeIds /\ vres.nodeStatusById[e.source][flag]
    \/ e.target \in NodeIds /\ vres.nodeStatusById[e.target][flag]

\* C14: in a result of validateGraph, an edge has hasError whenever its source
\* or its target node has hasError, and an edge without hasError has hasWarning
\* whenever its source or its target node has hasWarning.
C14_EdgeInheritsStatus ==
    vres.called =>
        \A i \in DOMAIN edges :
            /\ EndpointFlag(edges[i], "hasError") => vres.edgeStatusById[edges[i].id].hasError
            /\ (~vres.edgeStatusById[edges[i].id].hasError /\ EndpointFlag(edges[i], "hasWarning"))
                  => vres.edgeStatusById[edges[i].id].hasWarning

\* no issue names an edge, one edge has an endpoint in error and another edge,
\* free of errors, has an endpoint with a warning
C14_Witness ==
    /\ vres.called
    /\ \A i \in DOMAIN vres.issues : vres.issues[i].edgeId = NoEdgeId
    /\ \E i \in DOMAIN edges :
          EndpointFlag(edges[i], "hasError") /\ vres.edgeStatusById[edges[i].id].hasError
    /\ \E i \in DOMAIN edges :
          /\ ~EndpointFlag(edges[i], "hasError")
          /\ EndpointFlag(edges[i], "hasWarning")
          /\ vres.edgeStatusById[edges[i].id].hasWarning

----------------------------------------------------------------------------
(* C15 *)

\* the validator reported issues, all of them warnings
OnlyWarnings ==
    /\ xres.structural # <<>>
    /\ \A i \in DOMAIN xres.structural :
          /\ xres.structural[i].severity = "warning"
          /\ xres.structural[i].kind \in {"NODE_EXTRA_INPUTS", "UNKNOWN_NODE_DATA_KEY"}

\* C15: when the validator reports only warnings (NODE_EXTRA_INPUTS,
\* UNKNOWN_NODE_DATA_KEY) and the runtime is initialised, with every function
\* present and none throwing now or at an earlier camera initialisation,
\* executeGraph builds and attaches a chain for every sink with exactly one
\* incoming edge and returns no issue of severity error.
C15_WarningsNeverBlock ==
    (xres.called /\ Ready /\ xres.env = NoFault /\ xres.eng.cameraInitError = NoError
        /\ OnlyWarnings) =>
        /\ ~xres.threw
        /\ \A s \in OneInputSinks : s \in xres.compiled /\ AttachedTo(IndexOfSink(s)) # {}
        /\ ~HasSeverity(xres.issues, "error")

----------------------------------------------------------------------------
(* C16 *)

\* the UNKNOWN_NODE_DATA_KEY issues of the result about key k of node id
UnknownKeyIssues(id, k) ==
    {i \in DOMAIN vres.issues :
        /\ vres.issues[i].kind = "UNKNOWN_NODE_DATA_KEY"
        /\ vres.issues[i].nodeId = id
        /\ vres.issues[i].key = "UNKNOWN_NODE_DATA_KEY:" \o ToString(id) \o ":" \o k}

\* key k is not one a node of this type may carry
Undeclared(n, k) ==
    /\ n.type \in KnownTypes
    /\ k \notin Range(paramIdsByName(n.type))
    /\ ~(n.type = "out" /\ k = "outputIndex")

\* C16: in a result of validateGraph, every data key of a node of known type
\* that is neither a declared parameter of the type nor outputIndex on a sink
\* has exactly one UNKNOWN_NODE_DATA_KEY issue, of severity warning, on that
\* node; declared keys, the sink's outputIndex and the keys of nodes of unknown
\* type have none, and there is no such issue about anything else.
C16_UnknownDataKeys ==
    vres.called =>
        /\ \A i \in DOMAIN nodes : \A j \in DOMAIN nodes[i].data :
              /\ Cardinality(UnknownKeyIssues(nodes[i].id, nodes[i].data[j].key))
                    = (IF Undeclared(nodes[i], nodes[i].data[j].key) THEN 1 ELSE 0)
              /\ \A x \in UnknownKeyIssues(nodes[i].id, nodes[i].data[j].key) :
                    vres.issues[x].severity = "warning"
        /\ \A x \in DOMAIN vres.issues :
              vres.issues[x].kind = "UNKNOWN_NODE_DATA_KEY" =>
                 \E i \in DOMAIN nodes : \E j \in DOMAIN nodes[i].data :
                     x \in UnknownKeyIssues(nodes[i].id, nodes[i].data[j].key)

\* a node of known type that reaches no sink carries an undeclared key: the
\* result has one warning, about that key
C16_Witness ==
    /\ vres.called
    /\ \E i \in DOMAIN nodes : \E j \in DOMAIN nodes[i].data :
          /\ Undeclared(nodes[i], nodes[i].data[j].key)
          /\ nodes[i].id \notin vres.reachableNodes
          /\ Cardinality(UnknownKeyIssues(nodes[i].id, nodes[i].data[j].key)) = 1
    /\ Cardinality(IssuesOfKind("UNKNOWN_NODE_DATA_KEY")) = 1

----------------------------------------------------------------------------
(* C17 *)

\* the calls of the last executeGraph that applied a binary operation
BinaryCalls ==
    {i \in DOMAIN xres.calls :
        /\ xres.calls[i].chain # NoChain
        /\ kindByName(xres.calls[i].fn) \in {"combine", "combineCoord"}}

\* the first incoming edge of node id on slot input-index
SlotEdge(id, index) == EdgesOnSlot(Incoming(edges, id), index)[1]

\* c is the chain the call built for edge e: src(outputs[k]) for a feedback
\* edge, else a chain built for the edge's source node
IsChainOf(c, e, outputIndex) ==
    IF isFeedbackEdge(e) THEN c.op = "src" /\ c.arg = OutputArg(outputIndex)
    ELSE /\ c # NoChain
         /\ \E k \in DOMAIN xres.calls : xres.calls[k].node = e.source /\ xres.calls[k].chain = c

\* the values of the parameters the user can set on a node, in declared order,
\* up to the last one that is set
UserValues(n) ==
    trimUndefTail([k \in DOMAIN paramIdsByName(n.type) |-> DataGet(n, paramIdsByName(n.type)[k])])

IsValue(v) == DOMAIN v = {"num", "den"}

\* C17: a binary node is compiled by calling its operation on the chain of its
\* slot input-0, with the chain of its slot input-1 as first argument and then
\* the values of the node's user-declared parameters in declared order and
\* nothing else: no chain among them and no parameter dropped.
C17_MixerArguments ==
    xres.called =>
        \A i \in BinaryCalls :
            /\ IsChainOf(xres.calls[i].chain.base, SlotEdge(xres.calls[i].node, 0),
                         xres.calls[i].outputIndex)
            /\ IsChainOf(xres.calls[i].chain.other, SlotEdge(xres.calls[i].node, 1),
                         xres.calls[i].outputIndex)
            /\ xres.calls[i].chain.params = UserValues(NodeOf(nodes, xres.calls[i].node))
            /\ \A k \in DOMAIN xres.calls[i].chain.params : IsValue(xres.calls[i].chain.params[k])

\* a mixer with its parameter set was called; its input-1 edge is listed before
\* its input-0 edge and the two chains differ
C17_Witness ==
    /\ xres.called
    /\ \E i \in BinaryCalls :
          /\ xres.calls[i].chain.params = <<Half>>
          /\ xres.calls[i].chain.base # xres.calls[i].chain.other
          /\ HandleOf(Incoming(edges, xres.calls[i].node)[1]) = "input-1"

----------------------------------------------------------------------------
(* C18 *)

\* C18: when destroy() ran while init() was awaiting its imports, then once
\* init's continuation has run the engine is torn down: it holds no runtime
\* and no drawing context, no resize handler is registered, isInitialized is
\* false, and an executeGraph called after that makes no runtime call.
C18_DestroyBeforeInitCompletes ==
    (initPc \in {"done", "failed"} /\ destroyedAt = "awaiting") =>
        /\ hydra = 0
        /\ regl = 0
        /\ ~onResizeHandler
        /\ ~isInitialized
        /\ xres.called => xres.calls = <<>>

----------------------------------------------------------------------------
(* C19 *)

\* the camera nodes that feed a sink with exactly one incoming edge
CamerasCompiled ==
    {Incoming(edges, s)[1].source : s \in OneInputSinks}
    \cap {nodes[i].id : i \in {j \in DOMAIN nodes : nodes[j].type = "camera"}}

\* the result holds a runtime error on node id with the message
ReportsCameraError(id, message) ==
    \E i \in DOMAIN xres.issues :
        /\ xres.issues[i].kind = "RUNTIME_EXECUTION_ERROR"
        /\ xres.issues[i].nodeId = id
        /\ xres.issues[i].message = message

\* C19: over the executeGraph calls made on an engine, initCam is invoked at
\* most once; a call that finds a cached camera error invokes no initCam, keeps
\* the error, and returns for every camera node it compiles a
\* RUNTIME_EXECUTION_ERROR with the cached message.
C19_CameraInitOnce ==
    /\ Len(initCamCalls) <= 1
    /\ (xres.called /\ xres.eng.cameraInitError # NoError) =>
          /\ InitCamLogged(xres.calls) = {}
          /\ xres.camErr = xres.eng.cameraInitError
          /\ (Ready /\ StructuralErrors = {} /\ xres.env = NoFault) =>
                \A c \in CamerasCompiled : ReportsCameraError(c, xres.eng.cameraInitError)

\* initCam was invoked once and threw; a later call compiled a camera node for
\* two sinks and reported the cached error
C19_Witness ==
    /\ Len(initCamCalls) = 1
    /\ xres.called /\ Ready /\ xres.env = NoFault /\ StructuralErrors = {}
    /\ xres.eng.cameraInitError = "initCam threw"
    /\ Cardinality({s \in OneInputSinks : Incoming(edges, s)[1].source \in CamerasCompiled}) = 2
    /\ \A c \in CamerasCompiled : ReportsCameraError(c, "initCam threw")

----------------------------------------------------------------------------
(* C20 *)

\* C20: when executeGraph is called on a graph without structural errors that
\* has a sink with one incoming edge while the engine holds no initialised
\* runtime (init has not resolved, or destroy has run), no runtime function is
\* called and, for every such sink, the result holds a RUNTIME_EXECUTION_ERROR
\* on a node of the sink's chain.
C20_UninitialisedReported ==
    (xres.called /\ ~Ready /\ StructuralErrors = {}) =>
        /\ xres.calls = <<>>
        /\ \A s \in OneInputSinks :
              \E i \in DOMAIN xres.issues :
                  /\ xres.issues[i].kind = "RUNTIME_EXECUTION_ERROR"
                  /\ xres.issues[i].nodeId \in Upstream({s})

----------------------------------------------------------------------------
(* C21 *)

\* the sinks with one incoming edge that write to output k
SinksOn(k) == {s \in OneInputSinks : IndexOfSink(s) = k}

\* every node leads to a sink, every edge's source is a node, and the
\* validator has nothing to say
AllLiveAndWellFormed ==
    /\ NodeIds \subseteq LeadsToSink
    /\ \A i \in DOMAIN edges : edges[i].source \in NodeIds
    /\ xres.structural = <<>>

\* C21: on an initialised runtime whose functions are present and do not throw
\* (now or at an earlier camera initialisation), for a graph with no structural
\* error, every sink with exactly one incoming edge has a chain attached once,
\* to the output of its own outputIndex and to no other, and the result has no
\* issue when all nodes and edges are live and well-formed.
C21_AttachedOncePerSink ==
    (xres.called /\ Ready /\ xres.env = NoFault /\ xres.eng.cameraInitError = NoError
        /\ StructuralErrors = {}) =>
        /\ \A s \in OneInputSinks :
              Cardinality(AttachedTo(IndexOfSink(s))) = Cardinality(SinksOn(IndexOfSink(s)))
        /\ \A i \in DOMAIN xres.attached : SinksOn(xres.attached[i].outputIndex) # {}
        /\ Len(xres.attached) = Cardinality(OneInputSinks)
        /\ AllLiveAndWellFormed => xres.issues = <<>>

----------------------------------------------------------------------------
(* C22 *)

\* the traversal of validateGraph ran into the call-stack limit
ValidatorOverflowed ==
    \E i \in DOMAIN xres.structuralAll : xres.structuralAll[i].kind = RangeError

\* C22: validateGraph and executeGraph run to completion on every graph:
\* neither traversal nests deeper than the graph has node ids, whatever cycles
\* of non-feedback edges, self-loops, feedback loops, edges from a missing
\* node and shared ancestors the graph has.
C22_TraversalsTerminate ==
    xres.called => ~ValidatorOverflowed /\ xres.thrownBy # RangeError

\* a node on a cycle of non-feedback edges also has an edge from a node that
\* does not exist; both are reported
C22_Witness ==
    /\ xres.called
    /\ \E i \in DOMAIN xres.issues : xres.issues[i].kind = "CYCLE"
    /\ \E i \in DOMAIN xres.issues : xres.issues[i].kind = "NODE_NOT_FOUND"
    /\ \E i \in DOMAIN edges : edges[i].isFeedback

----------------------------------------------------------------------------
(* C23 *)

\* S contains every sink and the source of every edge into S
ClosedBackward(S) ==
    /\ \A i \in DOMAIN nodes : nodes[i].type = "out" => nodes[i].id \in S
    /\ \A i \in DOMAIN edges : edges[i].target \in S => edges[i].source \in S

\* the ids a reachable set can hold: the nodes and the edges' sources
AllIds == NodeIds \cup {edges[i].source : i \in DOMAIN edges}

\* C23: in a result of validateGraph, reachableNodes is the least set that
\* holds every sink and the source of every edge, forward or feedback, into
\* the set; reachableEdges is the set of edges whose target is in
\* reachableNodes; and a node or edge is dead iff it is not in its set.
C23_LivenessIsBackwardReachability ==
    vres.called =>
        /\ ClosedBackward(vres.reachableNodes)
        /\ \A S \in SUBSET AllIds : ClosedBackward(S) => vres.reachableNodes \subseteq S
        /\ vres.reachableEdges
              = {edges[i].id : i \in {j \in DOMAIN edges : edges[j].target \in vres.reachableNodes}}
        /\ \A id \in NodeIds :
              vres.nodeStatusById[id].isDead <=> id \notin vres.reachableNodes
        /\ \A i \in DOMAIN edges :
              vres.edgeStatusById[edges[i].id].isDead <=> edges[i].id \notin vres.reachableEdges

\* a node is live through a feedback edge only, another node and an edge are dead
C23_Witness ==
    /\ vres.called
    /\ \E id \in NodeIds : id \in vres.reachableNodes /\ id \notin ForwardUpstream(SinkIds)
    /\ \E id \in NodeIds : vres.nodeStatusById[id].isDead
    /\ \E i \in DOMAIN edges : vres.edgeStatusById[edges[i].id].isDead

----------------------------------------------------------------------------
(* C24 *)

\* a node that cannot be compiled: of unknown type, or with fewer incoming
\* edges than its type declares
Uncompilable(id) ==
    /\ id \in NodeIds
    /\ \/ kindByName(NodeOf(nodes, id).type) = "unknown"
       \/ Len(Incoming(edges, id)) < arityByName(NodeOf(nodes, id).type)

\* the sources of the edges into the compilable nodes of S
SourcesPast(S) ==
    {edges[i].source : i \in {j \in DOMAIN edges : edges[j].target \in S /\ ~Uncompilable(edges[j].target)}}

RECURSIVE UpstreamPast(_)
UpstreamPast(S) == IF SourcesPast(S) \subseteq S THEN S ELSE UpstreamPast(S \cup SourcesPast(S))

\* the ids that feed a sink along a path with no uncompilable node between
BeforeAnyStop == UpstreamPast(SinkIds)

TraversalKinds == {"NODE_MISSING_INPUTS", "NODE_EXTRA_INPUTS", "CYCLE", "UNKNOWN_TRANSFORM", "NODE_NOT_FOUND"}

ErrorsOfKind(id, kind) ==
    {i \in IssuesAbout(id) : vres.issues[i].kind = kind /\ vres.issues[i].severity = "error"}

\* C24: a node the validator reaches that is of unknown type gets one
\* UNKNOWN_TRANSFORM error, one that has fewer incoming edges than declared gets
\* one NODE_MISSING_INPUTS error, and the traversal does not go on into its
\* inputs: a node that feeds the sinks only through such nodes has no arity,
\* cycle, unknown-type or missing-node issue.
C24_StopsAtUncompilable ==
    vres.called =>
        /\ \A id \in DOMAIN vres.buildMemo \cap NodeIds :
              Uncompilable(id) =>
                 IF kindByName(NodeOf(nodes, id).type) = "unknown"
                 THEN /\ Cardinality(ErrorsOfKind(id, "UNKNOWN_TRANSFORM")) = 1
                      /\ IssuesAbout(id) \cap IssuesOfKind("NODE_MISSING_INPUTS") = {}
                 ELSE /\ Cardinality(ErrorsOfKind(id, "NODE_MISSING_INPUTS")) = 1
                      /\ IssuesAbout(id) \cap IssuesOfKind("UNKNOWN_TRANSFORM") = {}
        /\ \A i \in DOMAIN vres.issues :
              vres.issues[i].kind \in TraversalKinds => vres.issues[i].nodeId \in BeforeAnyStop

\* a live node that is itself uncompilable feeds the sinks only through a node
\* the traversal stopped at, and no issue is about it
C24_Witness ==
    /\ vres.called
    /\ \E id \in NodeIds \ BeforeAnyStop :
          /\ id \in vres.reachableNodes
          /\ Uncompilable(id)
          /\ IssuesAbout(id) = {}
          /\ \E i \in DOMAIN edges :
                /\ edges[i].source = id
                /\ edges[i].target \in DOMAIN vres.buildMemo
                /\ IssuesAbout(edges[i].target) # {}

----------------------------------------------------------------------------
(* C25 *)

\* the calls of the last executeGraph that applied a unary operation
UnaryCalls ==
    {i \in DOMAIN xres.calls :
        /\ xres.calls[i].chain # NoChain
        /\ kindByName(xres.calls[i].fn) \in {"coord", "color"}
        /\ xres.calls[i].fn # "out"}

ForwardInto(id) == SelectSeq(Incoming(edges, id), LAMBDA e : ~e.isFeedback)

\* the src(outputs[k]) chains built for node id
FeedbackChainsFor(id) ==
    {i \in DOMAIN xres.calls : xres.calls[i].fn = "src" /\ xres.calls[i].node = id}

\* C25: a unary node with a non-feedback incoming edge is applied to the chain
\* built for the source of its first such edge and no src(outputs[k]) chain is
\* built for it; a unary node whose incoming edges are all feedback edges is
\* applied to src(outputs[k]), k being the output being compiled.
C25_UnaryPrefersForward ==
    xres.called =>
        \A i \in UnaryCalls :
            IF ForwardInto(xres.calls[i].node) # <<>>
            THEN /\ IsChainOf(xres.calls[i].chain.base, ForwardInto(xres.calls[i].node)[1],
                              xres.calls[i].outputIndex)
                 /\ FeedbackChainsFor(xres.calls[i].node) = {}
            ELSE /\ xres.calls[i].chain.base
                       = Chain("src", NoChain, NoChain, OutputArg(xres.calls[i].outputIndex), <<>>)
                 /\ FeedbackChainsFor(xres.calls[i].node) # {}

\* a unary node has a feedback edge listed before its forward edge and was
\* applied to the forward source's chain
C25_Witness ==
    /\ xres.called
    /\ \E i \in UnaryCalls :
          /\ Len(Incoming(edges, xres.calls[i].node)) = 2
          /\ Incoming(edges, xres.calls[i].node)[1].isFeedback
          /\ ~Incoming(edges, xres.calls[i].node)[2].isFeedback
          /\ xres.calls[i].chain.base.op # "src"

----------------------------------------------------------------------------
(* C26 *)

\* the binary nodes that are the one input of a sink: they are live and both
\* traversals visit them
LiveBinary ==
    {nodes[i].id : i \in {j \in DOMAIN nodes :
        /\ kindByName(nodes[j].type) \in {"combine", "combineCoord"}
        /\ \E s \in OneInputSinks : Incoming(edges, s)[1].source = nodes[j].id}}

LacksSlot(id) ==
    \E index \in {0, 1} : EdgesOnSlot(Incoming(edges, id), index) = <<>>

DefensiveBranch ==
    {i \in DOMAIN xres.issues :
        \E t \in EngineTypes, found \in {"0", "1"} :
            xres.issues[i].message = t \o " expects 2 inputs at runtime, found " \o found}

\* C26: the validator reports an issue about every live binary node (here: one
\* feeding a sink directly) that has no incoming edge on slot input-0 or none on
\* slot input-1, and for a graph without structural error the builder never
\* reports that a binary node "expects 2 inputs at runtime".
C26_BinaryOnePerSlot ==
    xres.called =>
        /\ \A id \in LiveBinary :
              LacksSlot(id) =>
                  \E i \in DOMAIN xres.structuralAll : xres.structuralAll[i].nodeId = id
        /\ StructuralErrors = {} => DefensiveBranch = {}

----------------------------------------------------------------------------
(* C29 *)

\* the calls of the last executeGraph that built src(sources[0]) for a camera node
CameraChains ==
    {i \in DOMAIN xres.calls :
        /\ xres.calls[i].fn = "src"
        /\ xres.calls[i].chain # NoChain
        /\ xres.calls[i].node \in NodeIds
        /\ NodeOf(nodes, xres.calls[i].node).type = "camera"}

\* C29: whenever executeGraph has built the chain of a camera node, initCam has
\* been invoked on the runtime the engine holds at that call, whatever init,
\* executeGraph and destroy calls came before.
C29_CameraInitialisedOnRuntime ==
    (xres.called /\ CameraChains # {}) =>
        \E i \in DOMAIN initCamCalls : initCamCalls[i] = xres.eng.hydra

----------------------------------------------------------------------------
(* C27 *)

EventsOf(op) == {i \in DOMAIN events : events[i].op = op}

\* no graph change lies between events j and k
NoChangeBetween(j, k) == \A m \in EventsOf("change") : ~(j < m /\ m < k)

\* at most one timeout is pending
OneTimerPending == Cardinality(timers) <= 1

\* no executeGraph call lies between two graph changes less than the debounce
\* delay apart, and none comes earlier than the delay after its graph was set
BurstsCollapse ==
    /\ \A j, k \in EventsOf("change") :
          (j < k /\ NoChangeBetween(j, k) /\ events[k].at - events[j].at < EXECUTE_DEBOUNCE_MS) =>
              \A x \in EventsOf("executeGraph") : ~(j < x /\ x < k)
    /\ \A x \in EventsOf("executeGraph") : events[x].at - events[x].armedAt >= EXECUTE_DEBOUNCE_MS

\* every executeGraph call was given the graph of the most recent change
LatestGraphExecuted ==
    \A x \in EventsOf("executeGraph") : events[x].given = events[x].latest

\* C27: at most one debounce timer is pending, graph changes less than 50 ms
\* apart have no executeGraph call between them, and every executeGraph call
\* made by the timer receives the nodes and edges of the most recent graph
\* change, a change that empties the graph included.
C27_DebounceLastWriterWins ==
    /\ OneTimerPending
    /\ BurstsCollapse
    /\ LatestGraphExecuted

----------------------------------------------------------------------------
(* C30 *)

\* the executeGraph calls made after onDestroy ran
ExecutedAfterDestroy == {i \in EventsOf("executeGraph") : events[i].destroyed}

\* the engine.start() calls made after onDestroy ran
StartedAfterDestroy == {i \in EventsOf("start") : events[i].destroyed}

\* C30: once the canvas component is destroyed, engine.start() is not called
\* and executeGraph is not called, whenever the destruction happens during the
\* mount sequence, the graph changes and the debounce timer.
C30_NothingRunsAfterDestroy ==
    /\ ExecutedAfterDestroy = {}
    /\ StartedAfterDestroy = {}

----------------------------------------------------------------------------
(* C28 *)

\* the editor's edges before edge i that carry no delayFrames
NonDelayBefore(i) == {j \in 1..(i - 1) : flowEdges[j].delayFrames = 0}

\* a directed path from a to b along the edges of J (a = b included)
RECURSIVE PathAlong(_, _, _, _)
PathAlong(J, a, b, steps) ==
    \/ a = b
    \/ /\ steps > 0
       /\ \E j \in J : flowEdges[j].source = a /\ PathAlong(J, flowEdges[j].target, b, steps - 1)

\* edge i closes a directed cycle among the non-delay edges before it
ClosesCycle(i) ==
    PathAlong(NonDelayBefore(i), flowEdges[i].target, flowEdges[i].source, MaxNodes)

NonDelay == {j \in DOMAIN flowEdges : flowEdges[j].delayFrames = 0}

\* C28: after the effect has run, an edge carries delayFrames exactly if, in
\* insertion order, it closes a directed cycle among the non-delay edges before
\* it (so an edge flagged earlier that no longer closes a cycle has lost its
\* flag); the non-delay edges form an acyclic graph; and another run of the
\* effect changes nothing.
C28_DelayFlagsFromScratch ==
    /\ \A i \in DOMAIN flowEdges : (flowEdges[i].delayFrames > 0) <=> ClosesCycle(i)
    /\ \A j \in NonDelay :
          ~PathAlong(NonDelay, flowEdges[j].target, flowEdges[j].source, MaxNodes)
    /\ delayEffect(flowEdges) = flowEdges

====
